---------------------------- MODULE Spec2Model ----------------------------
(***************************************************************************)
(* Streaming session orchestrator and persistence layer of the DeepTutor   *)
(* web client: GlobalProvider (solver, question, research, ideagen, chat), *)
(* the localStorage persistence utilities and useGuideSession.             *)
(*                                                                         *)
(* A JavaScript object is modelled as a TLA+ record over its own keys.     *)
(* Where a key may hold the value undefined (the inputs of persistState    *)
(* and mergeWithDefaults) the object is the pair                           *)
(*     [isNull, def : record of the keys with a defined value,            *)
(*              undef : set of own keys whose value is undefined]          *)
(* null is the string "null"; an optional field that is not set is absent  *)
(* from the record.                                                        *)
(*                                                                         *)
(* A WebSocket follows the browser's life cycle CONNECTING -> OPEN ->      *)
(* CLOSING -> CLOSED: close() moves it to CLOSING, a message event is      *)
(* dispatched only while readyState is OPEN, and the closing task fires    *)
(* error (when the connection failed) and then close.                      *)
(***************************************************************************)
EXTENDS Integers, Sequences, FiniteSets, TLC

VARIABLES
    active,             \* the channel this behaviour exercises
    localStorage,       \* full key -> raw stored text
    isHydrated,         \* GlobalProvider: isHydrated.current
    solverState,        \* GlobalProvider: solverState
    solverSessionIdRef, \* GlobalProvider: solverSessionIdRef.current
    questionState,      \* GlobalProvider: questionState
    researchState,      \* GlobalProvider: researchState
    ideaGenState,       \* GlobalProvider: ideaGenState
    chatState,          \* GlobalProvider: chatState
    sessionIdRef,       \* GlobalProvider: sessionIdRef.current (chat)
    guideHydrated,      \* useGuideSession: isHydrated.current
    sessionState,       \* useGuideSession: sessionState
    chatMessages,       \* useGuideSession: chatMessages
    guideLoading,       \* useGuideSession: isLoading, loadingMessage
    guideFetch,         \* useGuideSession: the request in flight
    now,                \* the last value Date.now() returned
    ws,                 \* socket id -> WebSocket object
    wsRef,              \* channel -> id held by solverWs/questionWs/researchWs/chatWs (0: null)
    timers,             \* storage key -> pending debounced save
    fetches,            \* channel -> history request in flight
    thrown,             \* channel -> the last load*Session call rejected
    clearPending,       \* clearAllPersistence: the import's then-callback is due
    nextWs,             \* number of sockets constructed so far
    nEvents,            \* number of commands, server frames and store writes so far
    stopped,            \* history: sockets closed by stopSolver
    dropped,            \* history: sockets a queued frame of which was discarded
    restarted,          \* history: sockets whose channel was started again later
    streamed,           \* history: socket -> the stream deltas applied, in arrival order
    served,             \* server: socket -> the frames of its reply sent so far
    wasReset,           \* history: sockets that were the transport at a reset
    appendedBy,         \* history: socket -> positions of the transcript entries its stream events wrote
    uncaught,           \* history: sockets whose onmessage handler ended with an uncaught exception
    preClear,           \* history: the sockets constructed before the last clearAllPersistence
    mergeIn,            \* persistence functions: the arguments under test
    mergePartial,       \* persistence functions: the partial handed to the merge
    mergeOut            \* persistence functions: the merged result

solverVars == <<solverState, solverSessionIdRef>>
questionVars == <<questionState>>
researchVars == <<researchState>>
ideaVars == <<ideaGenState>>
chatVars == <<chatState, sessionIdRef>>
guideVars == <<guideHydrated, sessionState, chatMessages, guideLoading, guideFetch, now>>
wsVars == <<ws, wsRef, nextWs>>
histVars == <<stopped, dropped, restarted, streamed, served, wasReset, appendedBy, uncaught, preClear>>
mergeVars == <<mergeIn, mergePartial, mergeOut>>
notSolver ==
    <<active, clearPending, mergeVars, questionVars, researchVars, ideaVars, chatVars, guideVars>>
notQuestion ==
    <<active, clearPending, mergeVars, solverVars, researchVars, ideaVars, chatVars, guideVars>>
notResearch ==
    <<active, clearPending, mergeVars, solverVars, questionVars, ideaVars, chatVars, guideVars>>
notIdeaGen ==
    <<active, clearPending, mergeVars, solverVars, questionVars, researchVars, chatVars, guideVars>>
notChat ==
    <<active, clearPending, mergeVars, solverVars, questionVars, researchVars, ideaVars, guideVars>>
notGuide ==
    <<active, clearPending, mergeVars, isHydrated, solverVars, questionVars, researchVars,
      ideaVars, chatVars, wsVars, fetches, thrown, histVars>>
vars == <<active, localStorage, isHydrated, solverVars, questionVars, researchVars,
          ideaVars, chatVars, guideVars, wsVars, timers, fetches, thrown,
          clearPending, nEvents, histVars, mergeVars>>

---------------------------------------------------------------------------
(* Bounds of the exploration *)
MaxWs == 2
MaxEvents == 3
MaxTime == 2
MaxDeltas == 2

Null == "null"
SessionIds == {"s3"}
Questions == {"q2"}
Kb == "kb1"

---------------------------------------------------------------------------
(* lib/persistence *)

STORAGE_PREFIX == "deeptutor_"
STORAGE_VERSION == 1
LANGUAGE_STORAGE_KEY == "deeptutor-language"

STORAGE_KEYS ==
    [CHAT_STATE |-> "chat_state", SOLVER_STATE |-> "solver_state",
     QUESTION_STATE |-> "question_state", RESEARCH_STATE |-> "research_state",
     IDEAGEN_STATE |-> "ideagen_state", GUIDE_SESSION |-> "guide_session",
     COWRITER_CONTENT |-> "cowriter_content"]

EXCLUDE_FIELDS ==
    [CHAT |-> {"isLoading", "currentStage"},
     SOLVER |-> {"isSolving", "logs", "agentStatus", "tokenStats", "progress"},
     QUESTION |-> {"logs", "progress", "agentStatus", "tokenStats", "uploadedFile"},
     RESEARCH |-> {"status", "logs", "progress"},
     IDEAGEN |-> {"isGenerating", "progress"},
     GUIDE |-> {"isLoading", "loadingMessage"}]

\* the full localStorage key: STORAGE_PREFIX + key
PrefixedKey(key) == <<STORAGE_PREFIX, key>>

\* a JavaScript object all of whose own keys hold defined values
Obj(rec) == [isNull |-> FALSE, def |-> rec, undef |-> {}]
EmptyObj == Obj(<<>>)
OwnKeys(o) == DOMAIN o.def \cup o.undef

\* raw texts of localStorage
NoItem == [kind |-> "absent"]
Garbage == [kind |-> "garbage"]
Json(wrapper) == [kind |-> "json", value |-> wrapper]

\* a JavaScript array
Arr(seq) == [arr |-> seq]

\* JSON.stringify followed by JSON.parse: an object loses the keys whose value
\* is undefined, an array is kept
JsonValue(value) ==
    IF "arr" \in DOMAIN value THEN value
    ELSE [isNull |-> value.isNull, def |-> value.def, undef |-> {}]

JsonStringify(wrapper) ==
    Json([version |-> wrapper.version, data |-> JsonValue(wrapper.data)])

\* a reader that returns the wrapper in place of its data
loadFromStorageWrapper(store, key, defaultValue) ==
    LET raw == store[PrefixedKey(key)] IN
    IF raw.kind \in {"absent", "garbage"} THEN defaultValue
    ELSE IF raw.value.version # STORAGE_VERSION THEN defaultValue
    ELSE raw.value

\* a reader that takes the data of a wrapper of any version
loadFromStorageAnyVersion(store, key, defaultValue) ==
    LET raw == store[PrefixedKey(key)] IN
    IF raw.kind \in {"absent", "garbage"} THEN defaultValue ELSE raw.value.data

loadFromStorage(store, key, defaultValue) ==
    LET raw == store[PrefixedKey(key)] IN
    IF raw.kind = "absent" THEN defaultValue
    ELSE IF raw.kind = "garbage" THEN defaultValue
    ELSE IF raw.value.version # STORAGE_VERSION THEN defaultValue
    ELSE raw.value.data

\* a save whose write is dropped
saveToStorageDropped(store, key, value, quota) == store

\* the store after saveToStorage(key, value); quota = the write raises
saveToStorage(store, key, value, quota) ==
    IF quota THEN store
    ELSE [store EXCEPT ![PrefixedKey(key)] =
              JsonStringify([version |-> STORAGE_VERSION, data |-> value])]

\* a clear that removes the keys of STORAGE_KEYS only
clearAllStorageListedKeys(store) ==
    [k \in DOMAIN store |->
        IF k \in {PrefixedKey(STORAGE_KEYS[n]) : n \in DOMAIN STORAGE_KEYS}
        THEN NoItem ELSE store[k]]

clearAllStorage(store) ==
    [k \in DOMAIN store |-> IF k[1] = STORAGE_PREFIX THEN NoItem ELSE store[k]]

persistStateNoFilter(state, exclude) == state

persistState(state, exclude) ==
    [isNull |-> FALSE,
     def |-> [k \in (DOMAIN state.def \ exclude) |-> state.def[k]],
     undef |-> state.undef \ exclude]

mergeWithDefaultsKeepsExcluded(persistedState, defaultState, exclude) ==
    IF persistedState.isNull THEN defaultState
    ELSE [isNull |-> FALSE,
          def |-> [k \in (DOMAIN defaultState.def \cup DOMAIN persistedState.def) |->
                      IF k \in DOMAIN persistedState.def THEN persistedState.def[k]
                      ELSE defaultState.def[k]],
          undef |-> defaultState.undef \ DOMAIN persistedState.def]

mergeWithDefaults(persistedState, defaultState, exclude) ==
    IF persistedState.isNull THEN defaultState
    ELSE LET copied == DOMAIN persistedState.def \ exclude IN
         [isNull |-> FALSE,
          def |-> [k \in (DOMAIN defaultState.def \cup copied) |->
                      IF k \in copied THEN persistedState.def[k]
                      ELSE defaultState.def[k]],
          undef |-> defaultState.undef \ copied]

---------------------------------------------------------------------------
(* lib/debounce: a trailing-edge debounce keeps the arguments of the last  *)
(* call and runs the function once with them when the delay has passed.    *)

NoTimer == [pending |-> FALSE]

\* one debounced save shared by all the channels
DebounceShared(tm, key, arg) == [k \in DOMAIN tm |-> [pending |-> TRUE, arg |-> arg]]

\* a debounce that keeps the arguments of the first call of a burst
DebounceKeepsFirst(tm, key, arg) ==
    IF tm[key].pending THEN tm ELSE [tm EXCEPT ![key] = [pending |-> TRUE, arg |-> arg]]

Debounce(tm, key, arg) == [tm EXCEPT ![key] = [pending |-> TRUE, arg |-> arg]]

\* isHydrated.current, as read by the auto-save effects and the saved callbacks
HydrationGateOpen(hydrated) == TRUE
HydrationGate(hydrated) == hydrated

\* useEffect(() => { if (isHydrated.current) saveXState(xState) }, [xState])
AutoSave(tm, hydrated, key, state) ==
    IF HydrationGate(hydrated) THEN Debounce(tm, key, state) ELSE tm

---------------------------------------------------------------------------
(* The mount commit runs the effects of the whole tree in one synchronous   *)
(* pass, the children's before GlobalProvider's restore effect: commands    *)
(* may be issued before the restore effect, but no socket event or fetch    *)
(* callback runs until it has finished.                                    *)
Mounted == isHydrated

---------------------------------------------------------------------------
(* WebSocket objects *)

Channels == {"solver", "question", "research", "chat"}
SocketIds == 1..MaxWs

\* req: the arguments of the start call, captured by the socket's callbacks;
\* acc: the callbacks' local accumulator (chat: assistantMessage, a sequence of
\* deltas)
NoSocket == [kind |-> "none", readyState |-> "NONE", failed |-> FALSE,
             inbox |-> <<>>, sent |-> <<>>, req |-> <<>>, acc |-> <<>>]
NewSocket(kind, req) ==
    [kind |-> kind, readyState |-> "CONNECTING", failed |-> FALSE,
     inbox |-> <<>>, sent |-> <<>>, req |-> req, acc |-> <<>>]

ChannelOf(kind) == IF kind = "mimic" THEN "question" ELSE kind

\* a close() that does nothing
WsCloseIgnored(sock) == sock

\* WebSocket.close(): nothing when CLOSING or CLOSED; a connection that is not
\* yet established is failed; readyState becomes CLOSING
WsClose(sock) ==
    IF sock.readyState \in {"CLOSING", "CLOSED"} THEN sock
    ELSE [sock EXCEPT !.readyState = "CLOSING",
                      !.failed = (sock.readyState = "CONNECTING")]

\* WebSocket.send()
WsSend(sock, frame) == [sock EXCEPT !.sent = Append(@, frame)]

\* "if (xWs.current) xWs.current.close()" at the head of every start
CloseExistingSkipped(sockets, ref) == sockets
CloseExisting(sockets, ref) ==
    IF ref = 0 THEN sockets ELSE [sockets EXCEPT ![ref] = WsClose(@)]

Live(sock) == sock.readyState \in {"CONNECTING", "OPEN"}

\* the sockets a channel has constructed so far
SocketsOf(sockets, channel) ==
    {w \in SocketIds : sockets[w].kind # "none" /\ ChannelOf(sockets[w].kind) = channel}

\* the connection ends once the queued message tasks have run; a connection
\* that was never established, or was closed before it was, has failed; an
\* established one ends cleanly or by a network failure (netfail)
CanEnd(sock) ==
    sock.inbox = <<>> /\ sock.readyState \in {"CONNECTING", "OPEN", "CLOSING"}
Ended(sock, netfail) ==
    [sock EXCEPT
        !.readyState = "CLOSED",
        !.failed = CASE sock.readyState = "CONNECTING" -> TRUE
                     [] sock.readyState = "CLOSING" -> sock.failed
                     [] OTHER -> netfail]

---------------------------------------------------------------------------
(* GlobalProvider: solver *)

DEFAULT_SOLVER_STATE ==
    [sessionId |-> Null, isSolving |-> FALSE, logs |-> <<>>, messages |-> <<>>,
     question |-> "", selectedKb |-> "", agentStatus |-> "pending",
     tokenStats |-> "zero", progress |-> "none"]

addSolverLog(prev, log) == [prev EXCEPT !.logs = Append(@, log)]

\* frames the solver server may send; "notjson" is a text JSON.parse rejects
SolverFrames ==
    {[type |-> "session", session_id |-> "s1"],
     [type |-> "log"], [type |-> "agent_status"], [type |-> "token_stats"],
     [type |-> "progress"],
     [type |-> "result", session_id |-> Null],
     [type |-> "result", session_id |-> "s2"],
     [type |-> "error"], [type |-> "unknown"], [type |-> "notjson"]}

\* a session handler that starts from the default state
solverOnMessageStateSessionResets(prev, data) ==
    IF data.type = "session"
    THEN [DEFAULT_SOLVER_STATE EXCEPT !.sessionId = data.session_id]
    ELSE prev

\* the state update of ws.onmessage
solverOnMessageState(prev, data) ==
    CASE data.type = "session" -> [prev EXCEPT !.sessionId = data.session_id]
      [] data.type = "log" -> addSolverLog(prev, [type |-> "log"])
      [] data.type = "agent_status" -> [prev EXCEPT !.agentStatus = "updated"]
      [] data.type = "token_stats" -> [prev EXCEPT !.tokenStats = "stats"]
      [] data.type = "progress" -> [prev EXCEPT !.progress = "stage"]
      [] data.type = "result" ->
            [prev EXCEPT
                !.sessionId = IF data.session_id # Null THEN data.session_id ELSE @,
                !.messages = Append(@, [role |-> "assistant", content |-> "answer"]),
                !.isSolving = FALSE]
      [] data.type = "error" ->
            [addSolverLog(prev, [type |-> "error"]) EXCEPT !.isSolving = FALSE]
      [] OTHER -> prev

startSolver(question) ==
    /\ active = "solver"
    /\ nEvents < MaxEvents /\ nextWs < MaxWs
    /\ LET id == nextWs + 1 IN
       /\ ws' = [CloseExisting(ws, wsRef.solver) EXCEPT
                   ![id] = NewSocket("solver", [question |-> question])]
       /\ wsRef' = [wsRef EXCEPT !.solver = id]
       /\ nextWs' = id
    /\ solverState' =
          [solverState EXCEPT
              !.isSolving = TRUE, !.logs = <<>>,
              !.messages = Append(@, [role |-> "user", content |-> question]),
              !.question = question, !.selectedKb = Kb,
              !.agentStatus = "pending", !.tokenStats = "zero", !.progress = "none"]
    /\ timers' = AutoSave(timers, isHydrated, STORAGE_KEYS.SOLVER_STATE, solverState')
    /\ nEvents' = nEvents + 1
    /\ restarted' = restarted \cup SocketsOf(ws, "solver")
    /\ UNCHANGED <<notSolver, localStorage, isHydrated, solverSessionIdRef, fetches,
                   thrown, stopped, dropped, streamed, served, wasReset, appendedBy, uncaught, preClear>>

solverWsOnOpen(w) ==
    /\ Mounted
    /\ ws[w].kind = "solver" /\ ws[w].readyState = "CONNECTING"
    /\ ws' = [ws EXCEPT ![w] =
                 WsSend([@ EXCEPT !.readyState = "OPEN"],
                        [question |-> ws[w].req.question,
                         session_id |-> solverSessionIdRef])]
    /\ solverState' = addSolverLog(solverState, [type |-> "system"])
    /\ timers' = AutoSave(timers, isHydrated, STORAGE_KEYS.SOLVER_STATE, solverState')
    /\ UNCHANGED <<notSolver, localStorage, isHydrated, solverSessionIdRef, wsRef,
                   nextWs, fetches, thrown, nEvents, histVars>>

\* a message task of a solver socket: dispatched to ws.onmessage only while
\* the socket is OPEN
solverWsOnMessage(w) ==
    /\ Mounted
    /\ ws[w].kind = "solver" /\ ws[w].inbox # <<>>
    /\ LET data == Head(ws[w].inbox)
           popped == [ws[w] EXCEPT !.inbox = Tail(@)]
       IN
       IF ws[w].readyState = "OPEN"
       THEN /\ solverState' = solverOnMessageState(solverState, data)
            /\ solverSessionIdRef' =
                  IF data.type = "session" THEN data.session_id ELSE solverSessionIdRef
            /\ ws' = [ws EXCEPT ![w] =
                         IF data.type = "result" THEN WsClose(popped) ELSE popped]
            /\ timers' =
                  IF data.type \in {"unknown", "notjson"} THEN timers
                  ELSE AutoSave(timers, isHydrated, STORAGE_KEYS.SOLVER_STATE,
                                solverState')
            /\ uncaught' = IF data.type = "notjson" THEN uncaught \cup {w} ELSE uncaught
            /\ preClear' = preClear
            /\ UNCHANGED dropped
       ELSE /\ ws' = [ws EXCEPT ![w] = popped]
            /\ dropped' = dropped \cup {w}
            /\ UNCHANGED <<solverVars, timers, uncaught, preClear>>
    /\ UNCHANGED <<notSolver, localStorage, isHydrated, wsRef, nextWs, fetches,
                   thrown, nEvents, stopped, restarted, streamed, served, wasReset, appendedBy>>

\* the state update of ws.onerror
solverOnErrorState(prev) ==
    [addSolverLog(prev, [type |-> "error"]) EXCEPT
        !.isSolving = FALSE, !.agentStatus = "error", !.progress = "none"]

\* the connection of a solver socket ends: error (when it failed), then close
solverWsClosed(w, netfail) ==
    /\ Mounted
    /\ ws[w].kind = "solver" /\ CanEnd(ws[w])
    /\ ws' = [ws EXCEPT ![w] = Ended(@, netfail)]
    /\ IF ws'[w].failed
       THEN /\ solverState' = solverOnErrorState(solverState)
            /\ timers' = AutoSave(timers, isHydrated, STORAGE_KEYS.SOLVER_STATE,
                                  solverState')
       ELSE UNCHANGED <<solverState, timers>>
    /\ wsRef' = IF wsRef.solver = w THEN [wsRef EXCEPT !.solver = 0] ELSE wsRef
    /\ UNCHANGED <<notSolver, localStorage, isHydrated, solverSessionIdRef, nextWs,
                   fetches, thrown, nEvents, histVars>>

stopSolverKeepsOpen ==
    /\ active = "solver" /\ nEvents < MaxEvents
    /\ wsRef' = [wsRef EXCEPT !.solver = 0]
    /\ stopped' = IF wsRef.solver = 0 THEN stopped ELSE stopped \cup {wsRef.solver}
    /\ solverState' =
          addSolverLog([solverState EXCEPT !.isSolving = FALSE], [type |-> "system"])
    /\ timers' = AutoSave(timers, isHydrated, STORAGE_KEYS.SOLVER_STATE, solverState')
    /\ nEvents' = nEvents + 1
    /\ UNCHANGED <<notSolver, localStorage, isHydrated, solverSessionIdRef, ws, nextWs,
                   fetches, thrown, dropped, restarted, streamed, served, wasReset, appendedBy, uncaught, preClear>>

stopSolverClearsMessages ==
    /\ active = "solver" /\ nEvents < MaxEvents
    /\ ws' = CloseExisting(ws, wsRef.solver)
    /\ wsRef' = [wsRef EXCEPT !.solver = 0]
    /\ stopped' = IF wsRef.solver = 0 THEN stopped ELSE stopped \cup {wsRef.solver}
    /\ solverState' =
          addSolverLog([solverState EXCEPT !.isSolving = FALSE, !.messages = <<>>],
                       [type |-> "system"])
    /\ timers' = AutoSave(timers, isHydrated, STORAGE_KEYS.SOLVER_STATE, solverState')
    /\ nEvents' = nEvents + 1
    /\ UNCHANGED <<notSolver, localStorage, isHydrated, solverSessionIdRef, nextWs,
                   fetches, thrown, dropped, restarted, streamed, served, wasReset, appendedBy, uncaught, preClear>>

stopSolver ==
    /\ active = "solver" /\ nEvents < MaxEvents
    /\ ws' = IF wsRef.solver = 0 THEN ws
             ELSE [ws EXCEPT ![wsRef.solver] = WsClose(@)]
    /\ wsRef' = [wsRef EXCEPT !.solver = 0]
    /\ stopped' = IF wsRef.solver = 0 THEN stopped ELSE stopped \cup {wsRef.solver}
    /\ solverState' =
          addSolverLog([solverState EXCEPT !.isSolving = FALSE], [type |-> "system"])
    /\ timers' = AutoSave(timers, isHydrated, STORAGE_KEYS.SOLVER_STATE, solverState')
    /\ nEvents' = nEvents + 1
    /\ UNCHANGED <<notSolver, localStorage, isHydrated, solverSessionIdRef, nextWs,
                   fetches, thrown, dropped, restarted, streamed, served, wasReset, appendedBy, uncaught, preClear>>

newSolverSession ==
    /\ active = "solver" /\ nEvents < MaxEvents
    /\ ws' = IF wsRef.solver = 0 THEN ws
             ELSE [ws EXCEPT ![wsRef.solver] = WsClose(@)]
    /\ wsRef' = [wsRef EXCEPT !.solver = 0]
    /\ solverSessionIdRef' = Null
    /\ solverState' =
          [DEFAULT_SOLVER_STATE EXCEPT !.selectedKb = solverState.selectedKb]
    /\ timers' = AutoSave(timers, isHydrated, STORAGE_KEYS.SOLVER_STATE, solverState')
    /\ nEvents' = nEvents + 1
    /\ wasReset' = wasReset \cup ({wsRef.solver} \ {0})
    /\ UNCHANGED <<notSolver, localStorage, isHydrated, nextWs, fetches, thrown,
                   stopped, dropped, restarted, streamed, served, appendedBy, uncaught, preClear>>

\* the session the history endpoint returns for an id
HistoryMessages ==
    <<[role |-> "user", content |-> "hq"], [role |-> "assistant", content |-> "ha"]>>

\* loadSolverSession up to its first await: the fetch is issued
loadSolverSession(sessionId) ==
    /\ active = "solver" /\ nEvents < MaxEvents
    /\ fetches.solver = "none"
    /\ fetches' = [fetches EXCEPT !.solver = sessionId]
    /\ thrown' = [thrown EXCEPT !.solver = FALSE]
    /\ nEvents' = nEvents + 1
    /\ UNCHANGED <<notSolver, localStorage, isHydrated, solverVars, wsVars, timers,
                   histVars>>

\* a load that leaves solverSessionIdRef as it was
loadSolverSessionDoneKeepsRef(ok) ==
    /\ Mounted
    /\ fetches.solver # "none"
    /\ fetches' = [fetches EXCEPT !.solver = "none"]
    /\ IF ok
       THEN /\ solverState' =
                  [solverState EXCEPT
                      !.sessionId = fetches.solver, !.messages = HistoryMessages,
                      !.isSolving = FALSE, !.logs = <<>>, !.progress = "none"]
            /\ timers' = AutoSave(timers, isHydrated, STORAGE_KEYS.SOLVER_STATE,
                                  solverState')
            /\ UNCHANGED <<thrown, solverSessionIdRef>>
       ELSE /\ thrown' = [thrown EXCEPT !.solver = TRUE]
            /\ UNCHANGED <<solverVars, timers>>
    /\ UNCHANGED <<notSolver, localStorage, isHydrated, wsVars, nEvents,
                   histVars>>

\* loadSolverSession after the fetch has settled
loadSolverSessionDone(ok) ==
    /\ Mounted
    /\ fetches.solver # "none"
    /\ fetches' = [fetches EXCEPT !.solver = "none"]
    /\ IF ok
       THEN /\ solverSessionIdRef' = fetches.solver
            /\ solverState' =
                  [solverState EXCEPT
                      !.sessionId = fetches.solver,
                      !.messages = HistoryMessages,
                      !.selectedKb = Kb,
                      !.question = IF HistoryMessages[1].role = "user"
                                   THEN HistoryMessages[1].content ELSE "",
                      !.isSolving = FALSE, !.logs = <<>>, !.progress = "none"]
            /\ timers' = AutoSave(timers, isHydrated, STORAGE_KEYS.SOLVER_STATE,
                                  solverState')
            /\ UNCHANGED thrown
       ELSE /\ thrown' = [thrown EXCEPT !.solver = TRUE]
            /\ UNCHANGED <<solverVars, timers>>
    /\ UNCHANGED <<notSolver, localStorage, isHydrated, wsVars, nEvents,
                   histVars>>

\* the debounced saveSolverState runs
saveSolverState ==
    /\ nEvents < MaxEvents
    /\ nEvents' = nEvents + 1
    /\ timers[STORAGE_KEYS.SOLVER_STATE].pending
    /\ timers' = [timers EXCEPT ![STORAGE_KEYS.SOLVER_STATE] = NoTimer]
    /\ localStorage' =
          IF ~HydrationGate(isHydrated) THEN localStorage
          ELSE saveToStorage(localStorage, STORAGE_KEYS.SOLVER_STATE,
                             persistState(Obj(timers[STORAGE_KEYS.SOLVER_STATE].arg),
                                          EXCLUDE_FIELDS.SOLVER),
                             FALSE)
    /\ UNCHANGED <<notSolver, isHydrated, solverVars, wsVars, fetches, thrown,
                   histVars>>

---------------------------------------------------------------------------
(* GlobalProvider: question generation (knowledge mode and mimic mode).    *)
(* progress keeps its stage; a result keeps its question text.             *)

DEFAULT_QUESTION_STATE ==
    [step |-> "config", mode |-> "knowledge", logs |-> <<>>, results |-> <<>>,
     topic |-> "", difficulty |-> "medium", type |-> "choice", count |-> 1,
     selectedKb |-> "", progress |-> [stage |-> Null], agentStatus |-> "pending",
     tokenStats |-> "zero", uploadedFile |-> Null, paperPath |-> ""]

addQuestionLog(prev, log) == [prev EXCEPT !.logs = Append(@, log)]

QuestionFrames ==
    {[type |-> t] : t \in {"log", "agent_status", "token_stats", "progress",
                          "question_update", "question_error", "knowledge_saved",
                          "plan_ready", "batch_summary", "result", "complete",
                          "error", "unknown", "notjson"}}

\* a handler whose result event replaces the results by the new question
questionOnMessageStateReplaces(prev, data) ==
    IF data.type = "result"
    THEN [prev EXCEPT !.results = <<[question |-> "generated"]>>]
    ELSE prev

\* the state update of startQuestionGen's ws.onmessage (a log line that reports
\* no round, count or validation)
questionOnMessageState(prev, data) ==
    CASE data.type = "log" -> addQuestionLog(prev, [type |-> "log"])
      [] data.type = "agent_status" -> [prev EXCEPT !.agentStatus = "updated"]
      [] data.type = "token_stats" -> [prev EXCEPT !.tokenStats = "stats"]
      [] data.type = "progress" -> [prev EXCEPT !.progress = [stage |-> "researching"]]
      [] data.type = "question_update" -> addQuestionLog(prev, [type |-> "system"])
      [] data.type = "question_error" -> addQuestionLog(prev, [type |-> "error"])
      [] data.type = "knowledge_saved" -> addQuestionLog(prev, [type |-> "success"])
      [] data.type = "plan_ready" ->
            addQuestionLog([prev EXCEPT !.progress = [stage |-> "planning"]],
                           [type |-> "success"])
      [] data.type = "batch_summary" -> addQuestionLog(prev, [type |-> "success"])
      [] data.type = "result" ->
            [addQuestionLog(prev, [type |-> "success"]) EXCEPT
                !.results = Append(@, [question |-> "generated"]),
                !.progress = [stage |-> "generating"]]
      [] data.type = "complete" ->
            [prev EXCEPT !.step = "result", !.progress = [stage |-> "complete"]]
      [] data.type = "error" ->
            [addQuestionLog(prev, [type |-> "error"]) EXCEPT
                !.progress = [stage |-> Null]]
      [] OTHER -> prev

MimicFrames ==
    {[type |-> t] : t \in {"log", "status", "progress", "question_update", "result",
                          "summary", "complete", "error", "unknown", "notjson"}}

handleMimicWsMessage(prev, data) ==
    CASE data.type = "log" -> addQuestionLog(prev, [type |-> "log"])
      [] data.type = "status" ->
            [addQuestionLog(prev, [type |-> "system"]) EXCEPT
                !.progress = [stage |-> "parsing"]]
      [] data.type = "progress" -> [prev EXCEPT !.progress = [stage |-> "generating"]]
      [] data.type = "question_update" -> addQuestionLog(prev, [type |-> "system"])
      [] data.type = "result" ->
            [addQuestionLog(prev, [type |-> "success"]) EXCEPT
                !.results = Append(@, [question |-> "generated"]),
                !.progress = [stage |-> "generating"]]
      [] data.type = "summary" ->
            [addQuestionLog(prev, [type |-> "success"]) EXCEPT
                !.progress = [stage |-> "generating"]]
      [] data.type = "complete" ->
            [addQuestionLog(prev, [type |-> "success"]) EXCEPT
                !.step = "result", !.progress = [stage |-> "complete"]]
      [] data.type = "error" ->
            [addQuestionLog(prev, [type |-> "error"]) EXCEPT
                !.step = "config", !.progress = [stage |-> Null]]
      [] OTHER -> prev

\* startQuestionGen(topic, diff, type, count, kb)
QuestionRequests ==
    {[topic |-> "t1", difficulty |-> "hard", type |-> "choice", count |-> 2]}

startQuestionGen(r) ==
    /\ active = "question"
    /\ nEvents < MaxEvents /\ nextWs < MaxWs
    /\ LET id == nextWs + 1 IN
       /\ ws' = [CloseExisting(ws, wsRef.question) EXCEPT
                   ![id] = NewSocket("question", r)]
       /\ wsRef' = [wsRef EXCEPT !.question = id]
       /\ nextWs' = id
    /\ questionState' =
          [questionState EXCEPT
              !.step = "generating", !.mode = "knowledge", !.logs = <<>>,
              !.results = <<>>, !.topic = r.topic, !.difficulty = r.difficulty,
              !.type = r.type, !.count = r.count, !.selectedKb = Kb,
              !.progress = [stage |-> IF r.count > 1 THEN "planning" ELSE "generating"],
              !.agentStatus = "pending", !.tokenStats = "zero"]
    /\ timers' = AutoSave(timers, isHydrated, STORAGE_KEYS.QUESTION_STATE,
                          questionState')
    /\ nEvents' = nEvents + 1
    /\ restarted' = restarted \cup SocketsOf(ws, "question")
    /\ UNCHANGED <<notQuestion, localStorage, isHydrated, fetches, thrown, stopped,
                   dropped, streamed, served, wasReset, appendedBy, uncaught, preClear>>

\* startMimicQuestionGen(file, paperPath, kb, maxQuestions), called without a file
MimicRequests ==
    {[file |-> Null, paperPath |-> ""], [file |-> Null, paperPath |-> "exam1"]}

startMimicQuestionGen(r) ==
    /\ active = "question"
    /\ nEvents < MaxEvents
    /\ nEvents' = nEvents + 1
    /\ LET hasFile == r.file # Null
           hasParsedPath == r.paperPath # ""
           closed == CloseExisting(ws, wsRef.question)
           id == nextWs + 1
       IN
       IF ~hasFile /\ ~hasParsedPath
       THEN /\ ws' = closed
            /\ questionState' = addQuestionLog(questionState, [type |-> "error"])
            /\ UNCHANGED <<wsRef, nextWs, restarted>>
       ELSE /\ nextWs < MaxWs
            /\ ws' = [closed EXCEPT ![id] = NewSocket("mimic", r)]
            /\ wsRef' = [wsRef EXCEPT !.question = id]
            /\ nextWs' = id
            /\ questionState' =
                  [questionState EXCEPT
                      !.step = "generating", !.mode = "mimic", !.logs = <<>>,
                      !.results = <<>>, !.selectedKb = Kb, !.uploadedFile = r.file,
                      !.paperPath = r.paperPath,
                      !.progress = [stage |-> IF hasFile THEN "uploading" ELSE "parsing"],
                      !.agentStatus = "pending", !.tokenStats = "zero"]
            /\ restarted' = restarted \cup SocketsOf(ws, "question")
    /\ timers' = AutoSave(timers, isHydrated, STORAGE_KEYS.QUESTION_STATE,
                          questionState')
    /\ UNCHANGED <<notQuestion, localStorage, isHydrated, fetches, thrown, stopped,
                   dropped, streamed, served, wasReset, appendedBy, uncaught, preClear>>

questionWsOnOpen(w) ==
    /\ Mounted
    /\ ws[w].kind = "question" /\ ws[w].readyState = "CONNECTING"
    /\ ws' = [ws EXCEPT ![w] =
                 WsSend([@ EXCEPT !.readyState = "OPEN"],
                        [requirement |-> [knowledge_point |-> ws[w].req.topic,
                                          difficulty |-> ws[w].req.difficulty,
                                          question_type |-> ws[w].req.type],
                         count |-> ws[w].req.count, kb_name |-> Kb])]
    /\ questionState' = addQuestionLog(questionState, [type |-> "system"])
    /\ timers' = AutoSave(timers, isHydrated, STORAGE_KEYS.QUESTION_STATE,
                          questionState')
    /\ UNCHANGED <<notQuestion, localStorage, isHydrated, wsRef, nextWs, fetches,
                   thrown, nEvents, histVars>>

\* the request carries no file: the frame is sent at once
mimicWsOnOpen(w) ==
    /\ Mounted
    /\ ws[w].kind = "mimic" /\ ws[w].readyState = "CONNECTING"
    /\ ws' = [ws EXCEPT ![w] =
                 WsSend([@ EXCEPT !.readyState = "OPEN"],
                        [mode |-> "parsed", paper_path |-> ws[w].req.paperPath,
                         kb_name |-> Kb])]
    /\ questionState' = addQuestionLog(questionState, [type |-> "system"])
    /\ timers' = AutoSave(timers, isHydrated, STORAGE_KEYS.QUESTION_STATE,
                          questionState')
    /\ UNCHANGED <<notQuestion, localStorage, isHydrated, wsRef, nextWs, fetches,
                   thrown, nEvents, histVars>>

\* a message task of a question socket (either mode)
questionWsOnMessage(w) ==
    /\ Mounted
    /\ ws[w].kind \in {"question", "mimic"} /\ ws[w].inbox # <<>>
    /\ LET data == Head(ws[w].inbox)
           popped == [ws[w] EXCEPT !.inbox = Tail(@)]
       IN
       IF ws[w].readyState = "OPEN"
       THEN /\ questionState' =
                  IF ws[w].kind = "question"
                  THEN questionOnMessageState(questionState, data)
                  ELSE handleMimicWsMessage(questionState, data)
            /\ ws' = [ws EXCEPT ![w] =
                         IF data.type = "complete" THEN WsClose(popped) ELSE popped]
            /\ timers' =
                  IF data.type \in {"unknown", "notjson"} THEN timers
                  ELSE AutoSave(timers, isHydrated, STORAGE_KEYS.QUESTION_STATE,
                                questionState')
            /\ uncaught' = IF data.type = "notjson" THEN uncaught \cup {w} ELSE uncaught
            /\ preClear' = preClear
            /\ UNCHANGED dropped
       ELSE /\ ws' = [ws EXCEPT ![w] = popped]
            /\ dropped' = dropped \cup {w}
            /\ UNCHANGED <<questionState, timers, uncaught, preClear>>
    /\ UNCHANGED <<notQuestion, localStorage, isHydrated, wsRef, nextWs, fetches,
                   thrown, nEvents, stopped, restarted, streamed, served, wasReset, appendedBy>>

\* the state update of startQuestionGen's ws.onerror
questionOnErrorState(prev) ==
    [addQuestionLog(prev, [type |-> "error"]) EXCEPT
        !.step = "config", !.progress = [stage |-> Null], !.agentStatus = "pending"]

\* the state update of startMimicQuestionGen's ws.onerror
mimicOnErrorState(prev) ==
    [addQuestionLog(prev, [type |-> "error"]) EXCEPT !.step = "config"]

\* the connection of a knowledge-mode socket ends: error (when it failed), close
questionWsClosed(w, netfail) ==
    /\ Mounted
    /\ ws[w].kind = "question" /\ CanEnd(ws[w])
    /\ ws' = [ws EXCEPT ![w] = Ended(@, netfail)]
    /\ IF ws'[w].failed
       THEN /\ questionState' = questionOnErrorState(questionState)
            /\ timers' = AutoSave(timers, isHydrated, STORAGE_KEYS.QUESTION_STATE,
                                  questionState')
       ELSE UNCHANGED <<questionState, timers>>
    /\ wsRef' = IF wsRef.question = w THEN [wsRef EXCEPT !.question = 0] ELSE wsRef
    /\ UNCHANGED <<notQuestion, localStorage, isHydrated, nextWs, fetches, thrown,
                   nEvents, histVars>>

\* the connection of a mimic socket ends: it has an onerror and no onclose
mimicWsClosed(w, netfail) ==
    /\ Mounted
    /\ ws[w].kind = "mimic" /\ CanEnd(ws[w])
    /\ ws' = [ws EXCEPT ![w] = Ended(@, netfail)]
    /\ IF ws'[w].failed
       THEN /\ questionState' = mimicOnErrorState(questionState)
            /\ timers' = AutoSave(timers, isHydrated, STORAGE_KEYS.QUESTION_STATE,
                                  questionState')
       ELSE UNCHANGED <<questionState, timers>>
    /\ UNCHANGED <<notQuestion, localStorage, isHydrated, wsRef, nextWs, fetches,
                   thrown, nEvents, histVars>>

resetQuestionGen ==
    /\ active = "question" /\ nEvents < MaxEvents
    /\ questionState' =
          [questionState EXCEPT
              !.step = "config", !.results = <<>>, !.logs = <<>>,
              !.progress = [stage |-> Null], !.agentStatus = "pending",
              !.tokenStats = "zero", !.uploadedFile = Null, !.paperPath = ""]
    /\ timers' = AutoSave(timers, isHydrated, STORAGE_KEYS.QUESTION_STATE,
                          questionState')
    /\ nEvents' = nEvents + 1
    /\ wasReset' = wasReset \cup ({wsRef.question} \ {0})
    /\ UNCHANGED <<notQuestion, localStorage, isHydrated, wsVars, fetches, thrown,
                   stopped, dropped, restarted, streamed, served, appendedBy, uncaught, preClear>>

\* the debounced saveQuestionState runs
saveQuestionState ==
    /\ nEvents < MaxEvents
    /\ nEvents' = nEvents + 1
    /\ timers[STORAGE_KEYS.QUESTION_STATE].pending
    /\ timers' = [timers EXCEPT ![STORAGE_KEYS.QUESTION_STATE] = NoTimer]
    /\ localStorage' =
          IF ~HydrationGate(isHydrated) THEN localStorage
          ELSE saveToStorage(localStorage, STORAGE_KEYS.QUESTION_STATE,
                             persistState(Obj(timers[STORAGE_KEYS.QUESTION_STATE].arg),
                                          EXCLUDE_FIELDS.QUESTION),
                             FALSE)
    /\ UNCHANGED <<notQuestion, isHydrated, questionState, wsVars, fetches, thrown,
                   histVars>>

---------------------------------------------------------------------------
(* GlobalProvider: research *)

DEFAULT_RESEARCH_STATE ==
    [status |-> "idle", logs |-> <<>>, report |-> Null, topic |-> "",
     selectedKb |-> "", progress |-> [stage |-> Null, status |-> ""]]

addResearchLog(prev, log) == [prev EXCEPT !.logs = Append(@, log)]

ResearchFrames ==
    {[type |-> t] : t \in {"log", "progress", "result", "error", "unknown", "notjson"}}

\* the state update of startResearch's ws.onmessage
researchOnMessageState(prev, data) ==
    CASE data.type = "log" -> addResearchLog(prev, [type |-> "log"])
      [] data.type = "progress" ->
            [prev EXCEPT !.progress = [stage |-> "researching", status |-> "block"]]
      [] data.type = "result" ->
            [prev EXCEPT !.status = "completed", !.report = "report"]
      [] data.type = "error" ->
            [addResearchLog(prev, [type |-> "error"]) EXCEPT !.status = "idle"]
      [] OTHER -> prev

Topics == {"t1"}

startResearch(topic) ==
    /\ active = "research"
    /\ nEvents < MaxEvents /\ nextWs < MaxWs
    /\ LET id == nextWs + 1 IN
       /\ ws' = [CloseExisting(ws, wsRef.research) EXCEPT
                   ![id] = NewSocket("research", [topic |-> topic])]
       /\ wsRef' = [wsRef EXCEPT !.research = id]
       /\ nextWs' = id
    /\ researchState' =
          [researchState EXCEPT
              !.status = "running", !.logs = <<>>, !.report = Null, !.topic = topic,
              !.selectedKb = Kb, !.progress = [stage |-> Null, status |-> ""]]
    /\ timers' = AutoSave(timers, isHydrated, STORAGE_KEYS.RESEARCH_STATE,
                          researchState')
    /\ nEvents' = nEvents + 1
    /\ restarted' = restarted \cup SocketsOf(ws, "research")
    /\ UNCHANGED <<notResearch, localStorage, isHydrated, fetches, thrown, stopped,
                   dropped, streamed, served, wasReset, appendedBy, uncaught, preClear>>

researchWsOnOpen(w) ==
    /\ Mounted
    /\ ws[w].kind = "research" /\ ws[w].readyState = "CONNECTING"
    /\ ws' = [ws EXCEPT ![w] =
                 WsSend([@ EXCEPT !.readyState = "OPEN"],
                        [topic |-> ws[w].req.topic, kb_name |-> Kb,
                         plan_mode |-> "medium", skip_rephrase |-> FALSE])]
    /\ researchState' = addResearchLog(researchState, [type |-> "system"])
    /\ timers' = AutoSave(timers, isHydrated, STORAGE_KEYS.RESEARCH_STATE,
                          researchState')
    /\ UNCHANGED <<notResearch, localStorage, isHydrated, wsRef, nextWs, fetches,
                   thrown, nEvents, histVars>>

researchWsOnMessage(w) ==
    /\ Mounted
    /\ ws[w].kind = "research" /\ ws[w].inbox # <<>>
    /\ LET data == Head(ws[w].inbox)
           popped == [ws[w] EXCEPT !.inbox = Tail(@)]
       IN
       IF ws[w].readyState = "OPEN"
       THEN /\ researchState' = researchOnMessageState(researchState, data)
            /\ ws' = [ws EXCEPT ![w] =
                         IF data.type = "result" THEN WsClose(popped) ELSE popped]
            /\ timers' =
                  IF data.type \in {"unknown", "notjson"} THEN timers
                  ELSE AutoSave(timers, isHydrated, STORAGE_KEYS.RESEARCH_STATE,
                                researchState')
            /\ uncaught' = IF data.type = "notjson" THEN uncaught \cup {w} ELSE uncaught
            /\ preClear' = preClear
            /\ UNCHANGED dropped
       ELSE /\ ws' = [ws EXCEPT ![w] = popped]
            /\ dropped' = dropped \cup {w}
            /\ UNCHANGED <<researchState, timers, uncaught, preClear>>
    /\ UNCHANGED <<notResearch, localStorage, isHydrated, wsRef, nextWs, fetches,
                   thrown, nEvents, stopped, restarted, streamed, served, wasReset, appendedBy>>

\* the state update of startResearch's ws.onerror
\* an onerror that only logs
researchOnErrorStateOnlyLogs(prev) == addResearchLog(prev, [type |-> "error"])

researchOnErrorState(prev) ==
    [addResearchLog(prev, [type |-> "error"]) EXCEPT
        !.status = "idle", !.progress = [stage |-> Null, status |-> ""]]

researchWsClosed(w, netfail) ==
    /\ Mounted
    /\ ws[w].kind = "research" /\ CanEnd(ws[w])
    /\ ws' = [ws EXCEPT ![w] = Ended(@, netfail)]
    /\ IF ws'[w].failed
       THEN /\ researchState' = researchOnErrorState(researchState)
            /\ timers' = AutoSave(timers, isHydrated, STORAGE_KEYS.RESEARCH_STATE,
                                  researchState')
       ELSE UNCHANGED <<researchState, timers>>
    /\ wsRef' = IF wsRef.research = w THEN [wsRef EXCEPT !.research = 0] ELSE wsRef
    /\ UNCHANGED <<notResearch, localStorage, isHydrated, nextWs, fetches, thrown,
                   nEvents, histVars>>

\* the debounced saveResearchState runs
saveResearchState ==
    /\ nEvents < MaxEvents
    /\ nEvents' = nEvents + 1
    /\ timers[STORAGE_KEYS.RESEARCH_STATE].pending
    /\ timers' = [timers EXCEPT ![STORAGE_KEYS.RESEARCH_STATE] = NoTimer]
    /\ localStorage' =
          IF ~HydrationGate(isHydrated) THEN localStorage
          ELSE saveToStorage(localStorage, STORAGE_KEYS.RESEARCH_STATE,
                             persistState(Obj(timers[STORAGE_KEYS.RESEARCH_STATE].arg),
                                          EXCLUDE_FIELDS.RESEARCH),
                             FALSE)
    /\ UNCHANGED <<notResearch, isHydrated, researchState, wsVars, fetches, thrown,
                   histVars>>

---------------------------------------------------------------------------
(* GlobalProvider: idea generation; the page drives the state through the   *)
(* exposed setter                                                           *)

DEFAULT_IDEAGEN_STATE ==
    [isGenerating |-> FALSE, generationStatus |-> "", generatedIdeas |-> <<>>,
     progress |-> Null]

IdeaGenStates ==
    {[isGenerating |-> TRUE, generationStatus |-> "working", generatedIdeas |-> <<>>,
      progress |-> "p1"],
     [isGenerating |-> FALSE, generationStatus |-> "done",
      generatedIdeas |-> <<"idea1">>, progress |-> Null]}

setIdeaGenState(next) ==
    /\ active = "ideagen" /\ nEvents < MaxEvents
    /\ ideaGenState' = next
    /\ timers' = AutoSave(timers, isHydrated, STORAGE_KEYS.IDEAGEN_STATE, next)
    /\ nEvents' = nEvents + 1
    /\ UNCHANGED <<notIdeaGen, localStorage, isHydrated, wsVars, fetches, thrown,
                   histVars>>

\* the debounced saveIdeaGenState runs
saveIdeaGenState ==
    /\ nEvents < MaxEvents
    /\ nEvents' = nEvents + 1
    /\ timers[STORAGE_KEYS.IDEAGEN_STATE].pending
    /\ timers' = [timers EXCEPT ![STORAGE_KEYS.IDEAGEN_STATE] = NoTimer]
    /\ localStorage' =
          IF ~HydrationGate(isHydrated) THEN localStorage
          ELSE saveToStorage(localStorage, STORAGE_KEYS.IDEAGEN_STATE,
                             persistState(Obj(timers[STORAGE_KEYS.IDEAGEN_STATE].arg),
                                          EXCLUDE_FIELDS.IDEAGEN),
                             FALSE)
    /\ UNCHANGED <<notIdeaGen, isHydrated, ideaGenState, wsVars, fetches, thrown,
                   histVars>>

---------------------------------------------------------------------------
(* GlobalProvider: chat. The content of a chat message is the sequence of   *)
(* the text pieces it is made of, so that += is concatenation.              *)

DEFAULT_CHAT_STATE ==
    [sessionId |-> Null, messages |-> <<>>, isLoading |-> FALSE, selectedKb |-> "",
     enableRag |-> FALSE, enableWebSearch |-> FALSE, currentStage |-> Null]

\* { ...obj, [key]: value }
SetField(obj, key, value) ==
    [k \in DOMAIN obj \cup {key} |-> IF k = key THEN value ELSE obj[k]]

ChatFrames ==
    {[type |-> "session", session_id |-> "s2"], [type |-> "status"],
     [type |-> "stream", content |-> "d1"], [type |-> "stream", content |-> "d2"],
     [type |-> "sources"],
     [type |-> "result", content |-> <<"final">>], [type |-> "error"],
     [type |-> "unknown"], [type |-> "notjson"]}

LastIsAssistant(messages) ==
    messages # <<>> /\ messages[Len(messages)].role = "assistant"
LastIsStreaming(messages) ==
    /\ LastIsAssistant(messages)
    /\ "isStreaming" \in DOMAIN messages[Len(messages)]
    /\ messages[Len(messages)].isStreaming

\* a stream handler that pushes a new entry for every delta
chatOnMessageStatePushes(prev, data, assistantMessage) ==
    IF data.type = "stream"
    THEN [prev EXCEPT
             !.messages = Append(@, [role |-> "assistant", content |-> assistantMessage,
                                     isStreaming |-> TRUE]),
             !.currentStage = "generating"]
    ELSE prev

\* a result handler that leaves the transcript entry in progress
chatOnMessageStateKeepsStreaming(prev, data, assistantMessage) ==
    CASE data.type = "session" -> [prev EXCEPT !.sessionId = data.session_id]
      [] data.type = "stream" ->
            [prev EXCEPT
                !.messages =
                    IF LastIsStreaming(prev.messages)
                    THEN [prev.messages EXCEPT ![Len(prev.messages)].content =
                                                  assistantMessage]
                    ELSE Append(prev.messages,
                                [role |-> "assistant", content |-> assistantMessage,
                                 isStreaming |-> TRUE])]
      [] data.type = "result" -> [prev EXCEPT !.isLoading = FALSE, !.currentStage = Null]
      [] OTHER -> prev

\* the state update of sendChatMessage's ws.onmessage; assistantMessage is the
\* callbacks' accumulator after the event
chatOnMessageState(prev, data, assistantMessage) ==
    LET n == Len(prev.messages) IN
    CASE data.type = "session" -> [prev EXCEPT !.sessionId = data.session_id]
      [] data.type = "status" -> [prev EXCEPT !.currentStage = "stage"]
      [] data.type = "stream" ->
            [prev EXCEPT
                !.messages =
                    IF LastIsStreaming(prev.messages)
                    THEN [prev.messages EXCEPT ![n].content = assistantMessage]
                    ELSE Append(prev.messages,
                                [role |-> "assistant", content |-> assistantMessage,
                                 isStreaming |-> TRUE]),
                !.currentStage = "generating"]
      [] data.type = "sources" ->
            [prev EXCEPT
                !.messages =
                    IF LastIsAssistant(prev.messages)
                    THEN [prev.messages EXCEPT ![n] = SetField(@, "sources", "found")]
                    ELSE prev.messages]
      [] data.type = "result" ->
            [prev EXCEPT
                !.messages =
                    IF LastIsAssistant(prev.messages)
                    THEN [prev.messages EXCEPT
                             ![n] = SetField(SetField(@, "content", data.content),
                                             "isStreaming", FALSE)]
                    ELSE prev.messages,
                !.isLoading = FALSE, !.currentStage = Null]
      [] data.type = "error" ->
            [prev EXCEPT
                !.isLoading = FALSE, !.currentStage = Null,
                !.messages = Append(@, [role |-> "assistant", content |-> <<"Error">>])]
      [] OTHER -> prev

\* "   " is a message that trim() empties
ChatInputs == {"hi", "   "}
Trim(message) == IF message = "   " THEN "" ELSE message

sendChatMessage(message) ==
    /\ active = "chat"
    /\ nEvents < MaxEvents
    /\ nEvents' = nEvents + 1
    /\ restarted' = IF Trim(message) = "" THEN restarted
                     ELSE restarted \cup SocketsOf(ws, "chat")
    /\ IF Trim(message) = "" \/ chatState.isLoading
       THEN UNCHANGED <<chatState, ws, wsRef, nextWs, timers>>
       ELSE /\ nextWs < MaxWs
            /\ chatState' =
                  [chatState EXCEPT
                      !.isLoading = TRUE, !.currentStage = "connecting",
                      !.messages = Append(@, [role |-> "user", content |-> <<message>>])]
            /\ LET id == nextWs + 1 IN
               /\ ws' = [CloseExisting(ws, wsRef.chat) EXCEPT
                           ![id] = NewSocket("chat",
                                             [message |-> message,
                                              history |-> chatState.messages,
                                              kb_name |-> chatState.selectedKb])]
               /\ wsRef' = [wsRef EXCEPT !.chat = id]
               /\ nextWs' = id
            /\ timers' = AutoSave(timers, isHydrated, STORAGE_KEYS.CHAT_STATE, chatState')
    /\ UNCHANGED <<notChat, localStorage, isHydrated, sessionIdRef, fetches, thrown,
                   stopped, dropped, streamed, served, wasReset, appendedBy, uncaught, preClear>>

chatWsOnOpen(w) ==
    /\ Mounted
    /\ ws[w].kind = "chat" /\ ws[w].readyState = "CONNECTING"
    /\ ws' = [ws EXCEPT ![w] =
                 WsSend([@ EXCEPT !.readyState = "OPEN"],
                        [message |-> ws[w].req.message, session_id |-> sessionIdRef,
                         history |-> ws[w].req.history,
                         kb_name |-> ws[w].req.kb_name])]
    /\ UNCHANGED <<notChat, localStorage, isHydrated, chatVars, wsRef, nextWs, timers,
                   fetches, thrown, nEvents, histVars>>

\* bookkeeping of the transcript positions that stream frames wrote: no socket
\* has written an entry of a transcript that was just replaced
NoneWritten == [w \in SocketIds |-> {}]

\* the stream frame of socket w wrote the entry at position n
WrittenBy(by, w, n) ==
    [v \in SocketIds |-> IF v = w THEN by[v] \cup {n} ELSE by[v] \ {n}]

chatWsOnMessage(w) ==
    /\ Mounted
    /\ ws[w].kind = "chat" /\ ws[w].inbox # <<>>
    /\ LET data == Head(ws[w].inbox)
           assistantMessage == IF data.type = "stream"
                               THEN Append(ws[w].acc, data.content) ELSE ws[w].acc
           popped == [ws[w] EXCEPT !.inbox = Tail(@), !.acc = assistantMessage]
       IN
       IF ws[w].readyState = "OPEN"
       THEN /\ chatState' = chatOnMessageState(chatState, data, assistantMessage)
            /\ sessionIdRef' =
                  IF data.type = "session" THEN data.session_id ELSE sessionIdRef
            /\ ws' = [ws EXCEPT ![w] =
                         IF data.type \in {"result", "error"}
                         THEN WsClose(popped) ELSE popped]
            /\ timers' =
                  IF data.type \in {"unknown", "notjson"} THEN timers
                  ELSE AutoSave(timers, isHydrated, STORAGE_KEYS.CHAT_STATE, chatState')
            /\ streamed' = IF data.type = "stream"
                            THEN [streamed EXCEPT ![w] = Append(@, data.content)]
                            ELSE streamed
            /\ appendedBy' = IF data.type = "stream"
                              THEN WrittenBy(appendedBy, w, Len(chatState'.messages))
                              ELSE appendedBy
            /\ uncaught' = IF data.type = "notjson" THEN uncaught \cup {w} ELSE uncaught
            /\ preClear' = preClear
            /\ UNCHANGED dropped
       ELSE /\ ws' = [ws EXCEPT ![w].inbox = Tail(@)]
            /\ dropped' = dropped \cup {w}
            /\ UNCHANGED <<chatVars, timers, streamed, appendedBy, uncaught, preClear>>
    /\ UNCHANGED <<notChat, localStorage, isHydrated, wsRef, nextWs, fetches, thrown,
                   nEvents, stopped, restarted, served, wasReset>>

\* the state update of sendChatMessage's ws.onerror
chatOnErrorState(prev) ==
    [prev EXCEPT
        !.isLoading = FALSE, !.currentStage = Null,
        !.messages = Append(@, [role |-> "assistant", content |-> <<"Connection error">>])]

\* the state update of sendChatMessage's ws.onclose
chatOnCloseState(prev) == [prev EXCEPT !.isLoading = FALSE, !.currentStage = Null]

chatWsClosed(w, netfail) ==
    /\ Mounted
    /\ ws[w].kind = "chat" /\ CanEnd(ws[w])
    /\ ws' = [ws EXCEPT ![w] = Ended(@, netfail)]
    /\ chatState' = chatOnCloseState(IF ws'[w].failed THEN chatOnErrorState(chatState)
                                     ELSE chatState)
    /\ timers' = AutoSave(timers, isHydrated, STORAGE_KEYS.CHAT_STATE, chatState')
    /\ wsRef' = IF wsRef.chat = w THEN [wsRef EXCEPT !.chat = 0] ELSE wsRef
    /\ UNCHANGED <<notChat, localStorage, isHydrated, sessionIdRef, nextWs, fetches,
                   thrown, nEvents, histVars>>

clearChatHistory ==
    /\ active = "chat" /\ nEvents < MaxEvents
    /\ sessionIdRef' = Null
    /\ chatState' = [chatState EXCEPT !.sessionId = Null, !.messages = <<>>,
                                      !.currentStage = Null]
    /\ timers' = AutoSave(timers, isHydrated, STORAGE_KEYS.CHAT_STATE, chatState')
    /\ nEvents' = nEvents + 1
    /\ appendedBy' = NoneWritten
    /\ UNCHANGED <<notChat, localStorage, isHydrated, wsVars, fetches, thrown,
                   stopped, dropped, restarted, streamed, served, wasReset, uncaught, preClear>>

newChatSession ==
    /\ active = "chat" /\ nEvents < MaxEvents
    /\ ws' = CloseExisting(ws, wsRef.chat)
    /\ wsRef' = [wsRef EXCEPT !.chat = 0]
    /\ sessionIdRef' = Null
    /\ chatState' = [chatState EXCEPT !.sessionId = Null, !.messages = <<>>,
                                      !.isLoading = FALSE, !.currentStage = Null]
    /\ timers' = AutoSave(timers, isHydrated, STORAGE_KEYS.CHAT_STATE, chatState')
    /\ nEvents' = nEvents + 1
    /\ wasReset' = wasReset \cup ({wsRef.chat} \ {0})
    /\ appendedBy' = NoneWritten
    /\ UNCHANGED <<notChat, localStorage, isHydrated, nextWs, fetches, thrown,
                   stopped, dropped, restarted, streamed, served, uncaught, preClear>>

\* the messages of the session the chat history endpoint returns
ChatHistoryMessages ==
    <<[role |-> "user", content |-> <<"hq">>, isStreaming |-> FALSE],
      [role |-> "assistant", content |-> <<"ha">>, isStreaming |-> FALSE]>>

\* loadChatSession up to its first await: the fetch is issued
loadChatSession(sessionId) ==
    /\ active = "chat" /\ nEvents < MaxEvents
    /\ fetches.chat = "none"
    /\ fetches' = [fetches EXCEPT !.chat = sessionId]
    /\ thrown' = [thrown EXCEPT !.chat = FALSE]
    /\ nEvents' = nEvents + 1
    /\ UNCHANGED <<notChat, localStorage, isHydrated, chatVars, wsVars, timers,
                   histVars>>

\* loadChatSession after the fetch has settled (the session carries no settings)
loadChatSessionDone(ok) ==
    /\ Mounted
    /\ fetches.chat # "none"
    /\ fetches' = [fetches EXCEPT !.chat = "none"]
    /\ IF ok
       THEN /\ sessionIdRef' = fetches.chat
            /\ chatState' =
                  [chatState EXCEPT
                      !.sessionId = fetches.chat, !.messages = ChatHistoryMessages,
                      !.isLoading = FALSE, !.currentStage = Null]
            /\ timers' = AutoSave(timers, isHydrated, STORAGE_KEYS.CHAT_STATE, chatState')
            /\ appendedBy' = NoneWritten
            /\ UNCHANGED thrown
       ELSE /\ thrown' = [thrown EXCEPT !.chat = TRUE]
            /\ UNCHANGED <<chatVars, timers, appendedBy>>
    /\ UNCHANGED <<notChat, localStorage, isHydrated, wsVars, nEvents,
                   stopped, dropped, restarted, streamed, served, wasReset, uncaught, preClear>>

\* the debounced saveChatState runs
saveChatState ==
    /\ nEvents < MaxEvents
    /\ nEvents' = nEvents + 1
    /\ timers[STORAGE_KEYS.CHAT_STATE].pending
    /\ timers' = [timers EXCEPT ![STORAGE_KEYS.CHAT_STATE] = NoTimer]
    /\ localStorage' =
          IF ~HydrationGate(isHydrated) THEN localStorage
          ELSE saveToStorage(localStorage, STORAGE_KEYS.CHAT_STATE,
                             persistState(Obj(timers[STORAGE_KEYS.CHAT_STATE].arg),
                                          EXCLUDE_FIELDS.CHAT),
                             FALSE)
    /\ UNCHANGED <<notChat, isHydrated, chatVars, wsVars, fetches, thrown, histVars>>

---------------------------------------------------------------------------
(* GlobalProvider: the restore effect and clearAllPersistence *)

ArmIf(tm, changed, hydrated, key, state) ==
    IF changed THEN AutoSave(tm, hydrated, key, state) ELSE tm

Persisted(store, key) == loadFromStorage(store, key, EmptyObj)
HasKeys(persisted) == OwnKeys(persisted) # {}

restoredSolverState(store, prev) ==
    LET persistedSolver == Persisted(store, STORAGE_KEYS.SOLVER_STATE)
    IN IF HasKeys(persistedSolver)
       THEN mergeWithDefaults(persistedSolver, Obj(prev), EXCLUDE_FIELDS.SOLVER).def
       ELSE prev

restoredQuestionState(store, prev) ==
    LET persistedQuestion == Persisted(store, STORAGE_KEYS.QUESTION_STATE)
    IN IF HasKeys(persistedQuestion)
       THEN mergeWithDefaults(persistedQuestion, Obj(prev), EXCLUDE_FIELDS.QUESTION).def
       ELSE prev

restoredResearchState(store, prev) ==
    LET persistedResearch == Persisted(store, STORAGE_KEYS.RESEARCH_STATE)
        merged == mergeWithDefaults(persistedResearch, Obj(prev),
                                    EXCLUDE_FIELDS.RESEARCH).def
    IN IF HasKeys(persistedResearch)
       THEN IF merged.status = "running" THEN [merged EXCEPT !.status = "idle"]
            ELSE merged
       ELSE prev

restoredIdeaGenState(store, prev) ==
    LET persistedIdeaGen == Persisted(store, STORAGE_KEYS.IDEAGEN_STATE)
    IN IF HasKeys(persistedIdeaGen)
       THEN mergeWithDefaults(persistedIdeaGen, Obj(prev), EXCLUDE_FIELDS.IDEAGEN).def
       ELSE prev

restoredChatStateSkipped(store, prev) == prev

restoredChatState(store, prev) ==
    LET persistedChat == Persisted(store, STORAGE_KEYS.CHAT_STATE)
    IN IF HasKeys(persistedChat)
       THEN mergeWithDefaults(persistedChat, Obj(prev), EXCLUDE_FIELDS.CHAT).def
       ELSE prev

\* the mount effect: every state is restored, then isHydrated.current = true;
\* the render that follows runs the auto-save effect of every state that was set
restoreEffect ==
    /\ ~isHydrated
    /\ solverState' = restoredSolverState(localStorage, solverState)
    /\ questionState' = restoredQuestionState(localStorage, questionState)
    /\ researchState' = restoredResearchState(localStorage, researchState)
    /\ ideaGenState' = restoredIdeaGenState(localStorage, ideaGenState)
    /\ chatState' = restoredChatState(localStorage, chatState)
    /\ sessionIdRef' =
          IF HasKeys(Persisted(localStorage, STORAGE_KEYS.CHAT_STATE))
             /\ chatState'.sessionId \notin {Null, ""}
          THEN chatState'.sessionId ELSE sessionIdRef
    /\ isHydrated' = TRUE
    /\ timers' =
          LET set(key) == HasKeys(Persisted(localStorage, key))
              t1 == ArmIf(timers, set(STORAGE_KEYS.SOLVER_STATE), TRUE,
                          STORAGE_KEYS.SOLVER_STATE, solverState')
              t2 == ArmIf(t1, set(STORAGE_KEYS.QUESTION_STATE), TRUE,
                          STORAGE_KEYS.QUESTION_STATE, questionState')
              t3 == ArmIf(t2, set(STORAGE_KEYS.RESEARCH_STATE), TRUE,
                          STORAGE_KEYS.RESEARCH_STATE, researchState')
              t4 == ArmIf(t3, set(STORAGE_KEYS.IDEAGEN_STATE), TRUE,
                          STORAGE_KEYS.IDEAGEN_STATE, ideaGenState')
          IN ArmIf(t4, set(STORAGE_KEYS.CHAT_STATE), TRUE,
                   STORAGE_KEYS.CHAT_STATE, chatState')
    /\ appendedBy' = IF chatState'.messages = chatState.messages
                      THEN appendedBy ELSE NoneWritten
    /\ UNCHANGED <<active, localStorage, solverSessionIdRef, wsVars, fetches, thrown,
                   clearPending, nEvents, stopped, dropped, restarted, streamed,
                   served, wasReset, uncaught, preClear, guideVars, mergeVars>>

\* every state is set to its default object; a state that already equals it
\* runs no auto-save effect
clearAllPersistence ==
    /\ nEvents < MaxEvents
    /\ clearPending' = TRUE
    /\ solverState' = DEFAULT_SOLVER_STATE
    /\ questionState' = DEFAULT_QUESTION_STATE
    /\ researchState' = DEFAULT_RESEARCH_STATE
    /\ ideaGenState' = DEFAULT_IDEAGEN_STATE
    /\ chatState' = DEFAULT_CHAT_STATE
    /\ sessionIdRef' = Null
    /\ timers' =
          LET t1 == ArmIf(timers, solverState' # solverState, isHydrated,
                          STORAGE_KEYS.SOLVER_STATE, solverState')
              t2 == ArmIf(t1, questionState' # questionState, isHydrated,
                          STORAGE_KEYS.QUESTION_STATE, questionState')
              t3 == ArmIf(t2, researchState' # researchState, isHydrated,
                          STORAGE_KEYS.RESEARCH_STATE, researchState')
              t4 == ArmIf(t3, ideaGenState' # ideaGenState, isHydrated,
                          STORAGE_KEYS.IDEAGEN_STATE, ideaGenState')
          IN ArmIf(t4, chatState' # chatState, isHydrated,
                   STORAGE_KEYS.CHAT_STATE, chatState')
    /\ nEvents' = nEvents + 1
    /\ appendedBy' = NoneWritten
    /\ preClear' = {w \in SocketIds : ws[w].kind # "none"}
    /\ UNCHANGED <<active, localStorage, isHydrated, solverSessionIdRef, wsVars,
                   fetches, thrown, stopped, dropped, restarted, streamed, served,
                   wasReset, uncaught, guideVars, mergeVars>>

\* import("@/lib/persistence").then(({ clearAllStorage }) => clearAllStorage())
clearAllStorageRun ==
    /\ Mounted
    /\ clearPending
    /\ clearPending' = FALSE
    /\ localStorage' = clearAllStorage(localStorage)
    /\ UNCHANGED <<active, isHydrated, solverVars, questionVars, researchVars,
                   ideaVars, chatVars, wsVars, timers, fetches, thrown, nEvents,
                   histVars, guideVars, mergeVars>>

\* a server sends a frame of its vocabulary on an established connection
FramesOf(kind) ==
    CASE kind = "solver" -> SolverFrames
      [] kind = "question" -> QuestionFrames
      [] kind = "mimic" -> MimicFrames
      [] kind = "research" -> ResearchFrames
      [] kind = "chat" -> ChatFrames
      [] OTHER -> {}

AllFrames ==
    SolverFrames \cup QuestionFrames \cup MimicFrames \cup ResearchFrames \cup ChatFrames

serverSend(w, frame) ==
    /\ Mounted
    /\ ws[w].readyState = "OPEN" /\ frame \in FramesOf(ws[w].kind)
    /\ nEvents < MaxEvents
    /\ ws' = [ws EXCEPT ![w].inbox = Append(@, frame)]
    /\ nEvents' = nEvents + 1
    /\ UNCHANGED <<active, localStorage, isHydrated, solverVars, questionVars,
                   researchVars, ideaVars, chatVars, wsRef, nextWs, timers, fetches,
                   thrown, clearPending, histVars, guideVars, mergeVars>>

---------------------------------------------------------------------------
(* useGuideSession: state, persistence and createSession *)

GUIDE_CHAT_KEY == "guide_chat_messages"
GUIDE_SESSION_EXCLUDE == {}

INITIAL_SESSION_STATE ==
    [session_id |-> Null, notebook_id |-> "", notebook_name |-> "",
     knowledge_points |-> <<>>, current_index |-> -1, current_html |-> "",
     status |-> "idle", progress |-> 0, summary |-> ""]

NoLoading == [isLoading |-> FALSE, loadingMessage |-> ""]

\* the restore effect, the auto-save effects of the same commit and those of
\* the render that follows: both timers end armed with the restored values
guideRestoreEffect ==
    /\ active = "guide"
    /\ ~guideHydrated
    /\ LET persistedSession == Persisted(localStorage, STORAGE_KEYS.GUIDE_SESSION)
           persistedChat == loadFromStorage(localStorage, GUIDE_CHAT_KEY, Arr(<<>>))
       IN
       /\ sessionState' =
             IF HasKeys(persistedSession)
             THEN mergeWithDefaults(persistedSession, Obj(sessionState),
                                    GUIDE_SESSION_EXCLUDE).def
             ELSE sessionState
       /\ chatMessages' =
             IF Len(persistedChat.arr) > 0 THEN persistedChat.arr ELSE chatMessages
    /\ guideHydrated' = TRUE
    /\ timers' = AutoSave(AutoSave(timers, TRUE, STORAGE_KEYS.GUIDE_SESSION,
                                   sessionState'),
                          TRUE, GUIDE_CHAT_KEY, chatMessages')
    /\ UNCHANGED <<notGuide, localStorage, guideLoading, guideFetch, now, nEvents>>

\* Date.now(): the clock has or has not advanced since it was last read
Clock(t) == {t2 \in {t, t + 1} : t2 <= MaxTime}

Records == {0, 1}

\* createSession up to its await; one request is in flight at a time
createSession(size, t) ==
    /\ active = "guide" /\ nEvents < MaxEvents
    /\ guideFetch.op = "none"
    /\ nEvents' = nEvents + 1
    /\ IF size = 0
       THEN UNCHANGED <<guideLoading, chatMessages, guideFetch, now, timers>>
       ELSE /\ guideLoading' = [isLoading |-> TRUE, loadingMessage |-> "Analyzing"]
            /\ chatMessages' =
                  Append(chatMessages,
                         [id |-> <<"loading", t>>, role |-> "system",
                          content |-> "Analyzing", timestamp |-> t])
            /\ guideFetch' = [op |-> "create_session", loadingId |-> <<"loading", t>>]
            /\ now' = t
            /\ timers' = AutoSave(timers, guideHydrated, GUIDE_CHAT_KEY, chatMessages')
    /\ UNCHANGED <<notGuide, localStorage, guideHydrated, sessionState>>

\* a removal that finds no entry
removeLoadingMessageKeepsAll(messages, id) == messages
removeLoadingMessage(messages, id) == SelectSeq(messages, LAMBDA msg : msg.id # id)

\* createSession after the fetch has settled: data.success, data.success false,
\* or the fetch raised
createSessionDone(outcome, t) ==
    /\ guideHydrated
    /\ guideFetch.op = "create_session"
    /\ guideFetch' = [op |-> "none"]
    /\ guideLoading' = NoLoading
    /\ now' = t
    /\ LET kept == removeLoadingMessage(chatMessages, guideFetch.loadingId) IN
       IF outcome = "success"
       THEN /\ sessionState' =
                  [session_id |-> "g2", notebook_id |-> "cross_notebook",
                   notebook_name |-> "nb1", knowledge_points |-> <<"kp1", "kp2">>,
                   current_index |-> -1, current_html |-> "",
                   status |-> "initialized", progress |-> 0, summary |-> ""]
            /\ chatMessages' = <<[id |-> <<"plan">>, role |-> "system",
                                  content |-> "plan", timestamp |-> t]>>
       ELSE /\ chatMessages' =
                  Append(kept, [id |-> <<"error", t>>, role |-> "system",
                                content |-> "failed", timestamp |-> t])
            /\ UNCHANGED sessionState
    /\ timers' = ArmIf(AutoSave(timers, guideHydrated, GUIDE_CHAT_KEY, chatMessages'),
                       outcome = "success", guideHydrated,
                       STORAGE_KEYS.GUIDE_SESSION, sessionState')
    /\ UNCHANGED <<notGuide, localStorage, guideHydrated, nEvents>>

\* a value JavaScript takes for false in a condition
Falsy(value) == value \in {Null, ""}

GuideInputs == {"why", "   "}

\* a request function up to its await: the loading entry, and isLoading for
\* the functions that set it
guideRequest(op, text, setsLoading, t) ==
    /\ chatMessages' =
          Append(chatMessages,
                 [id |-> <<"loading", t>>, role |-> "system", content |-> text,
                  timestamp |-> t])
    /\ guideLoading' = IF setsLoading
                       THEN [isLoading |-> TRUE, loadingMessage |-> text]
                       ELSE guideLoading
    /\ guideFetch' = [op |-> op, loadingId |-> <<"loading", t>>]
    /\ now' = t
    /\ timers' = AutoSave(timers, guideHydrated, GUIDE_CHAT_KEY, chatMessages')

\* the reply of a request function: the loading entry goes, one entry with
\* the given id is added
guideReply(role, kind, t) ==
    /\ guideFetch' = [op |-> "none"]
    /\ now' = t
    /\ chatMessages' =
          Append(removeLoadingMessage(chatMessages, guideFetch.loadingId),
                 [id |-> <<kind, t>>, role |-> role, content |-> kind, timestamp |-> t])

\* the auto-save effects after a reply
guideReplySaves ==
    timers' = ArmIf(AutoSave(timers, guideHydrated, GUIDE_CHAT_KEY, chatMessages'),
                    sessionState' # sessionState, guideHydrated,
                    STORAGE_KEYS.GUIDE_SESSION, sessionState')

startLearning(t) ==
    /\ active = "guide" /\ nEvents < MaxEvents
    /\ guideFetch.op = "none"
    /\ nEvents' = nEvents + 1
    /\ IF Falsy(sessionState.session_id)
       THEN UNCHANGED <<guideLoading, chatMessages, guideFetch, now, timers>>
       ELSE guideRequest("start", "Generating", TRUE, t)
    /\ UNCHANGED <<notGuide, localStorage, guideHydrated, sessionState>>

startLearningDone(outcome, t) ==
    /\ guideHydrated
    /\ guideFetch.op = "start"
    /\ guideLoading' = NoLoading
    /\ IF outcome = "success"
       THEN /\ sessionState' = [sessionState EXCEPT !.current_index = 0,
                                                     !.current_html = "html",
                                                     !.status = "learning",
                                                     !.progress = 0]
            /\ guideReply("system", "start", t)
       ELSE /\ guideReply("system", "error", t)
            /\ UNCHANGED sessionState
    /\ guideReplySaves
    /\ UNCHANGED <<notGuide, localStorage, guideHydrated, nEvents>>

nextKnowledge(t) ==
    /\ active = "guide" /\ nEvents < MaxEvents
    /\ guideFetch.op = "none"
    /\ nEvents' = nEvents + 1
    /\ IF Falsy(sessionState.session_id)
       THEN UNCHANGED <<guideLoading, chatMessages, guideFetch, now, timers>>
       ELSE guideRequest("next", "Generating next", TRUE, t)
    /\ UNCHANGED <<notGuide, localStorage, guideHydrated, sessionState>>

\* outcome "completed": data.success with data.status "completed"
nextKnowledgeDone(outcome, t) ==
    /\ guideHydrated
    /\ guideFetch.op = "next"
    /\ guideLoading' = NoLoading
    /\ CASE outcome = "completed" ->
               /\ sessionState' = [sessionState EXCEPT !.status = "completed",
                                                        !.summary = "summary",
                                                        !.progress = 100]
               /\ guideReply("system", "complete", t)
         [] outcome = "success" ->
               /\ sessionState' =
                     [sessionState EXCEPT !.current_index = sessionState.current_index + 1,
                                          !.current_html = "html2",
                                          !.progress = 0]
               /\ guideReply("system", "next", t)
         [] OTHER ->
               /\ guideReply("system", "error", t)
               /\ UNCHANGED sessionState
    /\ guideReplySaves
    /\ UNCHANGED <<notGuide, localStorage, guideHydrated, nEvents>>

sendMessage(message, t) ==
    /\ active = "guide" /\ nEvents < MaxEvents
    /\ guideFetch.op = "none"
    /\ nEvents' = nEvents + 1
    /\ IF Trim(message) = "" \/ Falsy(sessionState.session_id)
       THEN UNCHANGED <<chatMessages, guideFetch, now, timers>>
       ELSE /\ chatMessages' =
                  chatMessages \o
                  <<[id |-> <<"user", t>>, role |-> "user", content |-> message,
                     timestamp |-> t],
                    [id |-> <<"loading", t>>, role |-> "system", content |-> "Thinking",
                     timestamp |-> t]>>
            /\ guideFetch' = [op |-> "chat", loadingId |-> <<"loading", t>>]
            /\ now' = t
            /\ timers' = AutoSave(timers, guideHydrated, GUIDE_CHAT_KEY, chatMessages')
    /\ UNCHANGED <<notGuide, localStorage, guideHydrated, sessionState, guideLoading>>

sendMessageDone(outcome, t) ==
    /\ guideHydrated
    /\ guideFetch.op = "chat"
    /\ guideReply("assistant", IF outcome = "success" THEN "assistant" ELSE "error", t)
    /\ UNCHANGED sessionState
    /\ guideReplySaves
    /\ UNCHANGED <<notGuide, localStorage, guideHydrated, nEvents, guideLoading>>

fixHtml(bugDescription, t) ==
    /\ active = "guide" /\ nEvents < MaxEvents
    /\ guideFetch.op = "none"
    /\ nEvents' = nEvents + 1
    /\ IF Falsy(sessionState.session_id) \/ Trim(bugDescription) = ""
       THEN UNCHANGED <<guideLoading, chatMessages, guideFetch, now, timers>>
       ELSE guideRequest("fix_html", "Fixing", FALSE, t)
    /\ UNCHANGED <<notGuide, localStorage, guideHydrated, sessionState>>

\* outcome "success": data.html is given; "empty": data.success without data.html
fixHtmlDone(outcome, t) ==
    /\ guideHydrated
    /\ guideFetch.op = "fix_html"
    /\ IF outcome \in {"success", "empty"}
       THEN /\ sessionState' =
                  [sessionState EXCEPT
                      !.current_html = IF outcome = "success" THEN "fixed" ELSE @]
            /\ guideReply("system", "fix", t)
       ELSE /\ guideReply("system", "error", t)
            /\ UNCHANGED sessionState
    /\ guideReplySaves
    /\ UNCHANGED <<notGuide, localStorage, guideHydrated, nEvents, guideLoading>>

\* the computed states of the hook
canStart(state) == state.status = "initialized" /\ Len(state.knowledge_points) > 0
canNextOffByOne(state) ==
    state.status = "learning" /\ state.current_index <= Len(state.knowledge_points) - 1
canNext(state) ==
    state.status = "learning" /\ state.current_index < Len(state.knowledge_points) - 1
isCompleted(state) == state.status = "completed"
isLastKnowledge(state) ==
    state.status = "learning" /\ state.current_index = Len(state.knowledge_points) - 1

\* the debounced saveSessionState runs
saveSessionState ==
    /\ nEvents < MaxEvents
    /\ nEvents' = nEvents + 1
    /\ timers[STORAGE_KEYS.GUIDE_SESSION].pending
    /\ timers' = [timers EXCEPT ![STORAGE_KEYS.GUIDE_SESSION] = NoTimer]
    /\ localStorage' =
          saveToStorage(localStorage, STORAGE_KEYS.GUIDE_SESSION,
                        persistState(Obj(timers[STORAGE_KEYS.GUIDE_SESSION].arg),
                                     GUIDE_SESSION_EXCLUDE),
                        FALSE)
    /\ UNCHANGED <<notGuide, guideVars>>

\* the debounced saveChatMessages runs
saveChatMessages ==
    /\ nEvents < MaxEvents
    /\ nEvents' = nEvents + 1
    /\ timers[GUIDE_CHAT_KEY].pending
    /\ timers' = [timers EXCEPT ![GUIDE_CHAT_KEY] = NoTimer]
    /\ localStorage' = saveToStorage(localStorage, GUIDE_CHAT_KEY,
                                     Arr(timers[GUIDE_CHAT_KEY].arg), FALSE)
    /\ UNCHANGED <<notGuide, guideVars>>

---------------------------------------------------------------------------
(* What localStorage holds when the page loads *)

StorageKeyNames ==
    {STORAGE_KEYS.CHAT_STATE, STORAGE_KEYS.SOLVER_STATE, STORAGE_KEYS.QUESTION_STATE,
     STORAGE_KEYS.RESEARCH_STATE, STORAGE_KEYS.IDEAGEN_STATE,
     STORAGE_KEYS.GUIDE_SESSION, GUIDE_CHAT_KEY}
LanguageKey == <<"", LANGUAGE_STORAGE_KEY>>
LocalStorageKeys == {PrefixedKey(k) : k \in StorageKeyNames} \cup {LanguageKey}

Stored(version, rec) == Json([version |-> version, data |-> Obj(rec)])

\* snapshots left by a page that was closed during a run; they were written
\* before the lifecycle fields joined the exclusion lists
SolverSnapshot ==
    [sessionId |-> "s1", isSolving |-> TRUE,
     messages |-> <<[role |-> "user", content |-> "q1"]>>,
     question |-> "q1", selectedKb |-> Kb]

QuestionSnapshot ==
    [step |-> "generating", mode |-> "knowledge",
     results |-> <<[question |-> "generated"]>>, topic |-> "t1",
     difficulty |-> "hard", type |-> "choice", count |-> 2, selectedKb |-> Kb,
     paperPath |-> ""]

ResearchSnapshot ==
    [status |-> "running", report |-> Null, topic |-> "t1", selectedKb |-> Kb]

IdeaGenSnapshot ==
    [isGenerating |-> TRUE, generationStatus |-> "working",
     generatedIdeas |-> <<"idea1">>]

ChatSnapshot ==
    [sessionId |-> "s1", isLoading |-> TRUE,
     messages |-> <<[role |-> "user", content |-> <<"hi">>],
                    [role |-> "assistant", content |-> <<"d">>, isStreaming |-> TRUE]>>,
     selectedKb |-> Kb, enableRag |-> FALSE, enableWebSearch |-> FALSE]

GuideSessionSnapshot ==
    [session_id |-> "g1", notebook_id |-> "cross_notebook", notebook_name |-> "nb1",
     knowledge_points |-> <<"kp1">>, current_index |-> 0, current_html |-> "html",
     status |-> "learning", progress |-> 0, summary |-> ""]

GuideChatSnapshot ==
    <<[id |-> <<"plan">>, role |-> "system", content |-> "plan", timestamp |-> 0],
      [id |-> <<"loading", 0>>, role |-> "system", content |-> "Analyzing",
       timestamp |-> 0]>>

EmptyStore == [k \in LocalStorageKeys |-> NoItem]

MidRunStore ==
    [EmptyStore EXCEPT
        ![PrefixedKey(STORAGE_KEYS.SOLVER_STATE)] = Stored(STORAGE_VERSION, SolverSnapshot),
        ![PrefixedKey(STORAGE_KEYS.QUESTION_STATE)] =
            Stored(STORAGE_VERSION, QuestionSnapshot),
        ![PrefixedKey(STORAGE_KEYS.RESEARCH_STATE)] =
            Stored(STORAGE_VERSION, ResearchSnapshot),
        ![PrefixedKey(STORAGE_KEYS.IDEAGEN_STATE)] =
            Stored(STORAGE_VERSION, IdeaGenSnapshot),
        ![PrefixedKey(STORAGE_KEYS.CHAT_STATE)] = Stored(STORAGE_VERSION, ChatSnapshot),
        ![PrefixedKey(STORAGE_KEYS.GUIDE_SESSION)] =
            Stored(STORAGE_VERSION, GuideSessionSnapshot),
        ![PrefixedKey(GUIDE_CHAT_KEY)] =
            Json([version |-> STORAGE_VERSION, data |-> Arr(GuideChatSnapshot)]),
        ![LanguageKey] = [kind |-> "text"]]

\* nothing usable: an older schema version, unparseable text, absent keys
DamagedStore ==
    [EmptyStore EXCEPT
        ![PrefixedKey(STORAGE_KEYS.SOLVER_STATE)] = Stored(0, SolverSnapshot),
        ![PrefixedKey(STORAGE_KEYS.QUESTION_STATE)] = Garbage,
        ![PrefixedKey(STORAGE_KEYS.CHAT_STATE)] = Stored(0, ChatSnapshot),
        ![PrefixedKey(STORAGE_KEYS.GUIDE_SESSION)] = Garbage,
        ![LanguageKey] = [kind |-> "text"]]

InitialStores == {MidRunStore, DamagedStore}

ChannelNames == {"solver", "question", "research", "ideagen", "chat", "guide"}

NoArgs == [phase |-> "none"]

\* the state after construction, for the channel and the store given
Constructed(channel, store) ==
    /\ active = channel
    /\ localStorage = store
    /\ isHydrated = FALSE
    /\ solverState = DEFAULT_SOLVER_STATE
    /\ solverSessionIdRef = Null
    /\ questionState = DEFAULT_QUESTION_STATE
    /\ researchState = DEFAULT_RESEARCH_STATE
    /\ ideaGenState = DEFAULT_IDEAGEN_STATE
    /\ chatState = DEFAULT_CHAT_STATE
    /\ sessionIdRef = Null
    /\ guideHydrated = FALSE
    /\ sessionState = INITIAL_SESSION_STATE
    /\ chatMessages = <<>>
    /\ guideLoading = NoLoading
    /\ guideFetch = [op |-> "none"]
    /\ now = 1
    /\ ws = [w \in SocketIds |-> NoSocket]
    /\ wsRef = [c \in Channels |-> 0]
    /\ timers = [k \in StorageKeyNames |-> NoTimer]
    /\ fetches = [c \in {"solver", "chat"} |-> "none"]
    /\ thrown = [c \in {"solver", "chat"} |-> FALSE]
    /\ clearPending = FALSE
    /\ nextWs = 0 /\ nEvents = 0
    /\ stopped = {} /\ dropped = {} /\ restarted = {}
    /\ uncaught = {}
    /\ preClear = {}
    /\ appendedBy = [w \in SocketIds |-> {}]
    /\ wasReset = {}
    /\ served = [w \in SocketIds |-> <<>>]
    /\ streamed = [w \in SocketIds |-> <<>>]

Init ==
    /\ \E channel \in ChannelNames, store \in InitialStores : Constructed(channel, store)
    /\ mergeIn = NoArgs /\ mergePartial = NoArgs /\ mergeOut = NoArgs

Next ==
    \/ restoreEffect
    \/ clearAllPersistence
    \/ clearAllStorageRun
    \/ \E w \in SocketIds, f \in AllFrames : serverSend(w, f)
    \/ \E q \in Questions : startSolver(q)
    \/ \E w \in SocketIds : solverWsOnOpen(w)
    \/ \E w \in SocketIds : solverWsOnMessage(w)
    \/ \E w \in SocketIds, netfail \in BOOLEAN : solverWsClosed(w, netfail)
    \/ stopSolver
    \/ newSolverSession
    \/ \E sid \in SessionIds : loadSolverSession(sid)
    \/ \E ok \in BOOLEAN : loadSolverSessionDone(ok)
    \/ saveSolverState
    \/ \E r \in QuestionRequests : startQuestionGen(r)
    \/ \E r \in MimicRequests : startMimicQuestionGen(r)
    \/ \E w \in SocketIds : questionWsOnOpen(w)
    \/ \E w \in SocketIds : mimicWsOnOpen(w)
    \/ \E w \in SocketIds : questionWsOnMessage(w)
    \/ \E w \in SocketIds, netfail \in BOOLEAN : questionWsClosed(w, netfail)
    \/ \E w \in SocketIds, netfail \in BOOLEAN : mimicWsClosed(w, netfail)
    \/ resetQuestionGen
    \/ saveQuestionState
    \/ \E topic \in Topics : startResearch(topic)
    \/ \E w \in SocketIds : researchWsOnOpen(w)
    \/ \E w \in SocketIds : researchWsOnMessage(w)
    \/ \E w \in SocketIds, netfail \in BOOLEAN : researchWsClosed(w, netfail)
    \/ saveResearchState
    \/ \E next \in IdeaGenStates : setIdeaGenState(next)
    \/ saveIdeaGenState
    \/ \E m \in ChatInputs : sendChatMessage(m)
    \/ \E w \in SocketIds : chatWsOnOpen(w)
    \/ \E w \in SocketIds : chatWsOnMessage(w)
    \/ \E w \in SocketIds, netfail \in BOOLEAN : chatWsClosed(w, netfail)
    \/ clearChatHistory
    \/ newChatSession
    \/ \E sid \in SessionIds : loadChatSession(sid)
    \/ \E ok \in BOOLEAN : loadChatSessionDone(ok)
    \/ saveChatState
    \/ guideRestoreEffect
    \/ \E size \in Records, t \in Clock(now) : createSession(size, t)
    \/ \E outcome \in {"success", "failure", "raise"}, t \in Clock(now) :
          createSessionDone(outcome, t)
    \/ saveSessionState
    \/ saveChatMessages

Spec == Init /\ [][Next]_vars

---------------------------------------------------------------------------
(* The guide hook with all its request functions *)

InitGuide == Init /\ active = "guide"

NextGuide ==
    \/ guideRestoreEffect
    \/ \E size \in Records, t \in Clock(now) : createSession(size, t)
    \/ \E outcome \in {"success", "failure", "raise"}, t \in Clock(now) :
          createSessionDone(outcome, t)
    \/ \E t \in Clock(now) : startLearning(t)
    \/ \E outcome \in {"success", "failure", "raise"}, t \in Clock(now) :
          startLearningDone(outcome, t)
    \/ \E t \in Clock(now) : nextKnowledge(t)
    \/ \E outcome \in {"completed", "success", "failure", "raise"}, t \in Clock(now) :
          nextKnowledgeDone(outcome, t)
    \/ \E message \in GuideInputs, t \in Clock(now) : sendMessage(message, t)
    \/ \E outcome \in {"success", "failure", "raise"}, t \in Clock(now) :
          sendMessageDone(outcome, t)
    \/ \E bugDescription \in GuideInputs, t \in Clock(now) : fixHtml(bugDescription, t)
    \/ \E outcome \in {"success", "empty", "failure", "raise"}, t \in Clock(now) :
          fixHtmlDone(outcome, t)
    \/ saveSessionState
    \/ saveChatMessages

SpecGuide == InitGuide /\ [][NextGuide]_vars

---------------------------------------------------------------------------
(* A chat run against a server that keeps to the protocol: session, then    *)
(* one to MaxDeltas stream events (d1, d2, d1, ...), then result. The user  *)
(* issues no command but sendChatMessage.                                   *)

\* the frames that may follow the ones sent
ReplyFrames(sent) ==
    LET stream == {[type |-> "stream",
                    content |-> IF Len(sent) % 2 = 1 THEN "d1" ELSE "d2"]}
        result == {f \in ChatFrames : f.type = "result"}
    IN IF sent = <<>> THEN {f \in ChatFrames : f.type = "session"}
       ELSE CASE sent[Len(sent)].type = "session" -> stream
              [] sent[Len(sent)].type = "stream" ->
                    IF Len(sent) - 1 < MaxDeltas THEN stream \cup result ELSE result
              [] OTHER -> {}

serverReply(w) ==
    /\ Mounted
    /\ ws[w].kind = "chat" /\ ws[w].readyState = "OPEN"
    /\ \E frame \in ReplyFrames(served[w]) :
          /\ ws' = [ws EXCEPT ![w].inbox = Append(@, frame)]
          /\ served' = [served EXCEPT ![w] = Append(@, frame)]
    /\ UNCHANGED <<notChat, localStorage, isHydrated, chatVars, wsRef, nextWs, timers,
                   fetches, thrown, nEvents, stopped, dropped, restarted, streamed, wasReset, appendedBy, uncaught, preClear>>

InitReply == Init /\ active = "chat"

NextReply ==
    \/ restoreEffect
    \/ \E m \in ChatInputs : sendChatMessage(m)
    \/ \E w \in SocketIds : chatWsOnOpen(w)
    \/ \E w \in SocketIds : serverReply(w)
    \/ \E w \in SocketIds : chatWsOnMessage(w)
    \/ \E w \in SocketIds, netfail \in BOOLEAN : chatWsClosed(w, netfail)

SpecReply == InitReply /\ [][NextReply]_vars

---------------------------------------------------------------------------
(* persistState and mergeWithDefaults on their own: the arguments are drawn *)
(* from every object over two field names, a field being absent, undefined  *)
(* or set; the partial is the filtered state or, as an older snapshot, the  *)
(* whole state.                                                             *)

FieldNames == {"kept", "live"}

\* objects whose fields hold the given value when they are set
ObjectsOver(names, value) ==
    {o \in {[isNull |-> FALSE, def |-> [k \in set |-> value], undef |-> und] :
              set \in SUBSET names, und \in SUBSET names} :
        DOMAIN o.def \cap o.undef = {}}

\* a default state declares every field
DefaultsOver(names) == {o \in ObjectsOver(names, "default") : OwnKeys(o) = names}

InitMerge ==
    /\ Constructed("solver", EmptyStore)
    /\ mergeIn \in {[phase |-> "args", state |-> st, defaults |-> d, exclude |-> ex] :
                       st \in ObjectsOver(FieldNames, "saved"),
                       d \in DefaultsOver(FieldNames),
                       ex \in SUBSET FieldNames}
    /\ mergePartial = NoArgs
    /\ mergeOut = NoArgs

\* persistState(state, exclude)
PersistCall ==
    /\ mergePartial = NoArgs
    /\ mergePartial' = [phase |-> "filtered",
                        value |-> persistState(mergeIn.state, mergeIn.exclude)]
    /\ UNCHANGED <<mergeIn, mergeOut>>

\* a snapshot written before the exclusion list existed: the whole state
OlderSnapshot ==
    /\ mergePartial = NoArgs
    /\ mergePartial' = [phase |-> "unfiltered", value |-> JsonValue(mergeIn.state)]
    /\ UNCHANGED <<mergeIn, mergeOut>>

\* mergeWithDefaults(partial, defaults, exclude)
MergeCall ==
    /\ mergePartial # NoArgs /\ mergeOut = NoArgs
    /\ mergeOut' = [phase |-> "merged",
                    value |-> mergeWithDefaults(mergePartial.value, mergeIn.defaults,
                                                mergeIn.exclude)]
    /\ UNCHANGED <<mergeIn, mergePartial>>

programVars ==
    <<active, localStorage, isHydrated, solverVars, questionVars, researchVars,
      ideaVars, chatVars, guideVars, wsVars, timers, fetches, thrown, clearPending,
      nEvents, histVars>>

NextMerge ==
    \/ PersistCall /\ UNCHANGED programVars
    \/ OlderSnapshot /\ UNCHANGED programVars
    \/ MergeCall /\ UNCHANGED programVars

SpecMerge == InitMerge /\ [][NextMerge]_vars

---------------------------------------------------------------------------
(* loadFromStorage, saveToStorage and clearAllStorage on their own: the     *)
(* store holds, under two namespaced keys, no item, unparseable text, a     *)
(* wrapper of an older version or a current one, and may hold the language  *)
(* key, which is outside the namespace.                                     *)

RawTexts ==
    {NoItem, Garbage, Stored(0, SolverSnapshot), Stored(STORAGE_VERSION, SolverSnapshot)}

StoreKeys == {STORAGE_KEYS.SOLVER_STATE, GUIDE_CHAT_KEY}

StoresOver ==
    {[EmptyStore EXCEPT ![PrefixedKey(STORAGE_KEYS.SOLVER_STATE)] = a,
                        ![PrefixedKey(GUIDE_CHAT_KEY)] = b,
                        ![LanguageKey] = c] :
        a \in RawTexts, b \in RawTexts, c \in {NoItem, [kind |-> "text"]}}

\* values handed to saveToStorage; one has a key whose value is undefined
SavedValues ==
    {Obj([sessionId |-> "s9"]),
     [isNull |-> FALSE, def |-> [sessionId |-> "s9"], undef |-> {"question"}]}

LoadDefaults == {EmptyObj, Obj(DEFAULT_SOLVER_STATE)}

InitStore ==
    /\ \E store \in StoresOver : Constructed("solver", store)
    /\ mergeIn = NoArgs /\ mergePartial = NoArgs /\ mergeOut = NoArgs

\* what the persistence functions cannot reach
storeRest ==
    <<active, isHydrated, solverVars, questionVars, researchVars, ideaVars, chatVars,
      guideVars, wsVars, timers, fetches, thrown, clearPending, histVars, mergePartial>>

\* loadFromStorage(key, defaultValue)
LoadCall(key, defaultValue) ==
    /\ nEvents < MaxEvents /\ nEvents' = nEvents + 1
    /\ mergeIn' = [phase |-> "load", key |-> key, defaultValue |-> defaultValue]
    /\ mergeOut' = [phase |-> "returned",
                    value |-> loadFromStorage(localStorage, key, defaultValue)]
    /\ UNCHANGED <<localStorage, storeRest>>

\* saveToStorage(key, value); quota: localStorage.setItem raises
SaveCall(key, value, quota) ==
    /\ nEvents < MaxEvents /\ nEvents' = nEvents + 1
    /\ mergeIn' = [phase |-> "save", key |-> key, value |-> value, quota |-> quota]
    /\ localStorage' = saveToStorage(localStorage, key, value, quota)
    /\ mergeOut' = [phase |-> "returned"]
    /\ UNCHANGED storeRest

\* clearAllStorage(); cleared: keysToRemove.length, which it logs
ClearCall ==
    /\ nEvents < MaxEvents /\ nEvents' = nEvents + 1
    /\ mergeIn' = [phase |-> "clear"]
    /\ localStorage' = clearAllStorage(localStorage)
    /\ mergeOut' = [phase |-> "returned",
                    cleared |-> Cardinality({k \in DOMAIN localStorage :
                                    k[1] = STORAGE_PREFIX /\ localStorage[k] # NoItem})]
    /\ UNCHANGED storeRest

NextStore ==
    \/ \E key \in StoreKeys, d \in LoadDefaults : LoadCall(key, d)
    \/ \E key \in StoreKeys, value \in SavedValues, quota \in BOOLEAN :
          SaveCall(key, value, quota)
    \/ ClearCall

SpecStore == InitStore /\ [][NextStore]_vars

---------------------------------------------------------------------------
(* Properties *)

\* the state a channel's callbacks may change
ChannelState(channel) ==
    CASE channel = "solver" -> <<solverState, solverSessionIdRef>>
      [] channel = "question" -> <<questionState, Null>>
      [] channel = "research" -> <<researchState, Null>>
      [] OTHER -> <<chatState, sessionIdRef>>

\* a message task of socket w runs in this step
MessageTask(w) == Len(ws'[w].inbox) < Len(ws[w].inbox)

\* C1: once start has been invoked again with a valid request, no message frame
\* of an earlier transport of the channel changes the channel state.
C1_Supersession ==
    [][\A w \in restarted :
          MessageTask(w) =>
              ChannelState(ChannelOf(ws[w].kind))' = ChannelState(ChannelOf(ws[w].kind))]_vars

LiveSockets(channel) == {w \in SocketsOf(ws, channel) : Live(ws[w])}

AtMostOneLive == \A c \in Channels : Cardinality(LiveSockets(c)) <= 1

\* C2: every channel has at most one transport that is connecting or open, and
\* a start that constructs a transport leaves exactly one.
C2_OneLiveTransport ==
    /\ []AtMostOneLive
    /\ [][nextWs' > nextWs =>
             Cardinality({w \in SocketsOf(ws', ChannelOf(ws'[nextWs'].kind)) :
                             Live(ws'[w])}) = 1]_vars

C2_Witness ==
    \E v, w \in SocketIds :
        /\ v < w /\ ws[v].kind # "none" /\ ws[w].kind # "none"
        /\ ChannelOf(ws[v].kind) = ChannelOf(ws[w].kind)
        /\ ws[v].readyState = "CLOSING" /\ Live(ws[w])

\* the hydration latch that guards a store key
HydratedFor(key) ==
    IF key \in {STORAGE_KEYS.GUIDE_SESSION, GUIDE_CHAT_KEY} THEN guideHydrated
    ELSE isHydrated

\* a value is written under the key in this step
Written(key) ==
    /\ localStorage'[PrefixedKey(key)] # localStorage[PrefixedKey(key)]
    /\ localStorage'[PrefixedKey(key)].kind = "json"

\* C3: no value is written under a channel's store key before the restore pass
\* that reads the key has completed.
C3_HydrationGate ==
    [][\A key \in StorageKeyNames : Written(key) => HydratedFor(key)]_vars

\* a run was started before the restore pass and no save was scheduled
C3_Witness ==
    /\ ~isHydrated
    /\ \/ solverState.isSolving
       \/ questionState.step = "generating"
       \/ researchState.status = "running"
       \/ chatState.isLoading
       \/ ideaGenState.isGenerating
    /\ \A key \in StorageKeyNames : ~timers[key].pending

\* C4: right after the restore pass no lifecycle field denotes a running run.
C4_RestoredNotRunning ==
    (isHydrated /\ nEvents = 0) =>
        /\ ~solverState.isSolving
        /\ ~chatState.isLoading
        /\ researchState.status # "running"
        /\ questionState.step # "generating"

\* the frame socket w sends in this step
SendsFrame(w) == Len(ws'[w].sent) > Len(ws[w].sent)
LastSent(w) == ws'[w].sent[Len(ws'[w].sent)]

\* C5: the session_id of the initiating frame of a solver or chat transport is
\* the sessionId of the channel state when the frame is sent.
C5_InitiatingSessionId ==
    [][\A w \in SocketIds :
          (SendsFrame(w) /\ ws[w].kind \in {"solver", "chat"}) =>
              LastSent(w).session_id =
                  (IF ws[w].kind = "solver" THEN solverState.sessionId
                   ELSE chatState.sessionId)]_vars

\* C6: no message frame of a transport that stopSolver closed changes the
\* solver state afterwards.
C6_StoppedFramesDropped ==
    [][\A w \in stopped : MessageTask(w) => UNCHANGED solverVars]_vars

C6_Witness ==
    \E w \in stopped \cap dropped : ~solverState.isSolving

\* C7: stopSolver keeps messages, sessionId, question and selectedKb, closes
\* the transport it held and sets isSolving to false.
C7_StopSolverEffect ==
    [][stopSolver =>
          /\ solverState'.messages = solverState.messages
          /\ solverState'.sessionId = solverState.sessionId
          /\ solverState'.question = solverState.question
          /\ solverState'.selectedKb = solverState.selectedKb
          /\ ~solverState'.isSolving
          /\ wsRef'.solver = 0
          /\ wsRef.solver # 0 => ~Live(ws'[wsRef.solver])]_vars

C7_Witness ==
    /\ stopped # {} /\ wsRef.solver = 0
    /\ solverState.messages # <<>> /\ solverState.sessionId = "s1"
    /\ ~solverState.isSolving
    /\ \A w \in stopped : ws[w].readyState = "CLOSING"

\* the exclusion set of the channel that saves under the key
ExcludedFor(key) ==
    CASE key = STORAGE_KEYS.SOLVER_STATE -> EXCLUDE_FIELDS.SOLVER
      [] key = STORAGE_KEYS.QUESTION_STATE -> EXCLUDE_FIELDS.QUESTION
      [] key = STORAGE_KEYS.RESEARCH_STATE -> EXCLUDE_FIELDS.RESEARCH
      [] key = STORAGE_KEYS.IDEAGEN_STATE -> EXCLUDE_FIELDS.IDEAGEN
      [] key = STORAGE_KEYS.CHAT_STATE -> EXCLUDE_FIELDS.CHAT
      [] OTHER -> EXCLUDE_FIELDS.GUIDE

ObjectKeys == StorageKeyNames \ {GUIDE_CHAT_KEY}

\* C8: a value written under a channel's key has none of the keys of the
\* channel's exclusion set.
C8_ExclusionIntegrity ==
    [][\A key \in ObjectKeys :
          Written(key) =>
              OwnKeys(localStorage'[PrefixedKey(key)].value.data)
                  \cap ExcludedFor(key) = {}]_vars

\* a state that holds excluded fields has been saved
C8_Witness ==
    \E key \in ObjectKeys \ {STORAGE_KEYS.GUIDE_SESSION} :
        /\ localStorage[PrefixedKey(key)].kind = "json"
        /\ localStorage[PrefixedKey(key)] # MidRunStore[PrefixedKey(key)]
        /\ localStorage[PrefixedKey(key)] # DamagedStore[PrefixedKey(key)]

\* the field of an object: absent, undefined, or its value
Field(obj, k) ==
    IF k \in DOMAIN obj.def THEN [is |-> "set", value |-> obj.def[k]]
    ELSE IF k \in obj.undef THEN [is |-> "undefined"]
    ELSE [is |-> "absent"]

\* C9: the merge takes an excluded field from the defaults whatever the
\* partial holds, a non-excluded field that is set in the state from the
\* state, and a field the partial has not set from the defaults.
C9_MergeOfPersisted ==
    mergeOut # NoArgs =>
        \A k \in FieldNames :
            LET merged == Field(mergeOut.value, k)
                default == Field(mergeIn.defaults, k)
            IN /\ k \in mergeIn.exclude => merged = default
               /\ (k \notin mergeIn.exclude /\ Field(mergeIn.state, k).is = "set") =>
                      merged = Field(mergeIn.state, k)
               /\ Field(mergePartial.value, k).is # "set" => merged = default

\* an excluded field that the partial still holds has been merged
C9_Witness ==
    /\ mergeOut # NoArgs /\ mergePartial.phase = "unfiltered"
    /\ \E k \in mergeIn.exclude : Field(mergePartial.value, k).is = "set"

\* the snapshot under the key was written during a run of session "s1"
RunSnapshot(key) ==
    LET p == Persisted(localStorage, key) IN
    /\ {"sessionId", "messages"} \subseteq DOMAIN p.def
    /\ p.def.sessionId = "s1" /\ p.def.messages # <<>>

\* C10: the restore pass restores sessionId "s1" and the persisted transcript
\* of a chat or solver snapshot written during a run, and opens no transport.
C10_RestartWhileRunning ==
    [][(~isHydrated /\ isHydrated') =>
          /\ RunSnapshot(STORAGE_KEYS.CHAT_STATE) =>
                /\ chatState'.sessionId = "s1"
                /\ chatState'.messages =
                      Persisted(localStorage, STORAGE_KEYS.CHAT_STATE).def.messages
          /\ RunSnapshot(STORAGE_KEYS.SOLVER_STATE) =>
                /\ solverState'.sessionId = "s1"
                /\ solverState'.messages =
                      Persisted(localStorage, STORAGE_KEYS.SOLVER_STATE).def.messages
          /\ UNCHANGED wsVars]_vars

C10_Witness ==
    /\ isHydrated /\ nextWs = 0
    /\ chatState.sessionId = "s1" /\ chatState.messages = ChatSnapshot.messages
    /\ solverState.sessionId = "s1" /\ solverState.messages = SolverSnapshot.messages

---------------------------------------------------------------------------
(* Chat stream events *)

\* the handler of socket w applies a frame of the given type in this step
Applies(w, kind, type) ==
    /\ ws[w].kind = kind /\ ws[w].readyState = "OPEN"
    /\ MessageTask(w)
    /\ Head(ws[w].inbox).type = type

\* the in-progress assistant entries among the given transcript positions
InProgress(messages, positions) ==
    {i \in positions \cap (1..Len(messages)) :
        /\ messages[i].role = "assistant"
        /\ "isStreaming" \in DOMAIN messages[i] /\ messages[i].isStreaming}

\* C11: when a stream event of a chat run is applied, the transcript's last
\* entry is an in-progress assistant entry whose content is the deltas of the
\* run in arrival order, it is the only in-progress entry among those the run's
\* stream events wrote, and the event appended it (the last entry was not in
\* progress) or replaced only the last entry.
C11_StreamOrdering ==
    [][\A w \in SocketIds :
          Applies(w, "chat", "stream") =>
             LET old == chatState.messages
                 new == chatState'.messages
                 n == Len(new)
             IN /\ LastIsStreaming(new)
                /\ new[n].content = streamed'[w]
                /\ InProgress(new, appendedBy'[w]) = {n}
                /\ IF LastIsStreaming(old)
                   THEN Len(old) = n /\ SubSeq(new, 1, n - 1) = SubSeq(old, 1, n - 1)
                   ELSE SubSeq(new, 1, n - 1) = old]_vars

\* two deltas have been applied, the second replacing the entry the first appended
C11_Witness ==
    \E w \in SocketIds :
        /\ streamed[w] = <<"d2", "d1">>
        /\ LastIsStreaming(chatState.messages)
        /\ chatState.messages[Len(chatState.messages)].content = <<"d2", "d1">>
        /\ Len(chatState.messages) = 2

---------------------------------------------------------------------------
(* A complete chat run *)

\* the reply sent on w is session, one or more stream events, result
CompleteReply(w) ==
    LET sent == served[w] IN
    /\ Len(sent) >= 3
    /\ sent[1].type = "session" /\ sent[Len(sent)].type = "result"
    /\ \A i \in 2..(Len(sent) - 1) : sent[i].type = "stream"

\* C12: when the result of a reply session(s), stream.., result(c) is applied,
\* sessionId is s, the last transcript entry is an assistant entry with content
\* c that is no longer in progress, isLoading is false, currentStage is null
\* and the client has closed the transport; the closing of the transport
\* afterwards changes none of this.
C12_CompleteChatRun ==
    [][\A w \in SocketIds :
          /\ (Applies(w, "chat", "result") /\ CompleteReply(w)) =>
                LET new == chatState'.messages
                    last == new[Len(new)]
                IN /\ chatState'.sessionId = served[w][1].session_id
                   /\ sessionIdRef' = served[w][1].session_id
                   /\ new # <<>> /\ last.role = "assistant"
                   /\ last.content = served[w][Len(served[w])].content
                   /\ last.isStreaming = FALSE
                   /\ ~chatState'.isLoading /\ chatState'.currentStage = Null
                   /\ ws'[w].readyState = "CLOSING" /\ ~ws'[w].failed
          /\ (/\ ws[w].kind = "chat" /\ CompleteReply(w) /\ ws[w].inbox = <<>>
              /\ ws[w].readyState = "CLOSING" /\ ws'[w].readyState = "CLOSED"
              /\ wsRef.chat = w) =>
                /\ chatState' = chatState /\ sessionIdRef' = sessionIdRef
                /\ wsRef'.chat = 0]_vars

\* a run session, stream, stream, result has ended and its transport is closed
C12_Witness ==
    \E w \in SocketIds :
        /\ CompleteReply(w) /\ Len(served[w]) = 4
        /\ ws[w].readyState = "CLOSED" /\ ws[w].inbox = <<>>
        /\ chatState.sessionId = "s2" /\ ~chatState.isLoading
        /\ chatState.messages[Len(chatState.messages)].content = <<"final">>

---------------------------------------------------------------------------
(* Who sets sessionId *)

\* the history request of the channel settles in this step
HistoryFetchSettles(channel) == fetches[channel] # "none" /\ fetches'[channel] = "none"

\* the restore pass runs in this step
Hydrates == ~isHydrated /\ isHydrated'

\* the step may give the channel a session id: a session event is applied, a
\* history request settles, or the restore pass brings back a persisted one
MaySetSessionId(channel) ==
    \/ \E w \in SocketIds : Applies(w, channel, "session")
    \/ HistoryFetchSettles(channel)
    \/ Hydrates

\* C13: the sessionId of the solver and of the chat state takes a new non-null
\* value only in a step that applies a session event (or settles a history
\* request, or restores the persisted state), and a result event leaves it as
\* it was.
C13_SessionIdOnlyFromSession ==
    [][/\ (solverState'.sessionId \notin {solverState.sessionId, Null}) =>
              MaySetSessionId("solver")
       /\ (chatState'.sessionId \notin {chatState.sessionId, Null}) =>
              MaySetSessionId("chat")
       /\ \A w \in SocketIds :
             /\ Applies(w, "solver", "result") =>
                   solverState'.sessionId = solverState.sessionId
             /\ Applies(w, "chat", "result") =>
                   chatState'.sessionId = chatState.sessionId]_vars

---------------------------------------------------------------------------
(* The session event *)

\* C14: a session event applied to the solver or the chat state sets sessionId
\* to the event's session_id and changes no other field of the state.
C14_SessionEventEffect ==
    [][\A w \in SocketIds :
          /\ Applies(w, "solver", "session") =>
                solverState' =
                   [solverState EXCEPT !.sessionId = Head(ws[w].inbox).session_id]
          /\ Applies(w, "chat", "session") =>
                chatState' =
                   [chatState EXCEPT !.sessionId = Head(ws[w].inbox).session_id]]_vars

\* a session event has been applied to a running solve
C14_Witness ==
    /\ solverState.sessionId = "s1" /\ solverSessionIdRef = "s1"
    /\ solverState.isSolving /\ solverState.messages # <<>>
    /\ solverState.logs # <<>>

---------------------------------------------------------------------------
(* The server's error event *)

\* the step appends an error line to the log
ErrorLogged(old, new) ==
    Len(new) = Len(old) + 1 /\ new[Len(new)].type = "error"

\* C15: when a server error event is applied, an error entry is appended and
\* the channel's lifecycle field is not a running value afterwards (solver,
\* question in knowledge and in mimic mode, research, chat).
C15_ServerErrorEndsRun ==
    [][\A w \in SocketIds :
          /\ Applies(w, "solver", "error") =>
                /\ ErrorLogged(solverState.logs, solverState'.logs)
                /\ ~solverState'.isSolving
          /\ Applies(w, "question", "error") =>
                /\ ErrorLogged(questionState.logs, questionState'.logs)
                /\ questionState'.step # "generating"
          /\ Applies(w, "mimic", "error") =>
                /\ ErrorLogged(questionState.logs, questionState'.logs)
                /\ questionState'.step # "generating"
          /\ Applies(w, "research", "error") =>
                /\ ErrorLogged(researchState.logs, researchState'.logs)
                /\ researchState'.status # "running"
          /\ Applies(w, "chat", "error") =>
                /\ chatState'.messages =
                      Append(chatState.messages,
                             [role |-> "assistant", content |-> <<"Error">>])
                /\ ~chatState'.isLoading]_vars

---------------------------------------------------------------------------
(* Transport failure *)

\* the connection of socket w ends in this step and its onerror handler runs
OnError(w) ==
    ws[w].readyState # "CLOSED" /\ ws'[w].readyState = "CLOSED" /\ ws'[w].failed

\* C16: when the onerror handler of a channel's current transport runs, the
\* channel is not running afterwards (solver isSolving false, question step
\* "config", research status "idle", chat isLoading false), an error entry
\* has been appended, and no transport is constructed or revived.
C16_TransportFailure ==
    [][\A w \in SocketIds :
          (OnError(w) /\ wsRef[ChannelOf(ws[w].kind)] = w) =>
             /\ ws[w].kind = "solver" =>
                   /\ ~solverState'.isSolving
                   /\ ErrorLogged(solverState.logs, solverState'.logs)
             /\ ws[w].kind \in {"question", "mimic"} =>
                   /\ questionState'.step = "config"
                   /\ ErrorLogged(questionState.logs, questionState'.logs)
             /\ ws[w].kind = "research" =>
                   /\ researchState'.status = "idle"
                   /\ ErrorLogged(researchState.logs, researchState'.logs)
             /\ ws[w].kind = "chat" =>
                   /\ ~chatState'.isLoading
                   /\ chatState'.messages =
                         Append(chatState.messages,
                                [role |-> "assistant",
                                 content |-> <<"Connection error">>])
             /\ nextWs' = nextWs
             /\ \A v \in SocketIds : Live(ws'[v]) => Live(ws[v])]_vars

\* the only research transport failed while the research was running
C16_Witness ==
    /\ nextWs = 1 /\ ws[1].kind = "research"
    /\ ws[1].readyState = "CLOSED" /\ ws[1].failed
    /\ researchState.status = "idle" /\ researchState.topic = "t1"
    /\ researchState.logs # <<>>
    /\ researchState.logs[Len(researchState.logs)].type = "error"

---------------------------------------------------------------------------
(* Start while a run is in progress *)

\* the channel's lifecycle field has its running value
Running(channel) ==
    CASE channel = "solver" -> solverState.isSolving
      [] channel = "question" -> questionState.step = "generating"
      [] channel = "research" -> researchState.status = "running"
      [] channel = "chat" -> chatState.isLoading

\* start is invoked with a valid request in this step, while w is the live
\* transport of a run of the channel
StartsOver(channel, w) ==
    /\ wsRef[channel] = w /\ Live(ws[w]) /\ Running(channel)
    /\ w \notin restarted /\ w \in restarted'

\* the new channel state holds the request the new transport was started with
RequestRecorded(channel, req) ==
    CASE channel = "solver" -> solverState'.question = req.question
      [] channel = "question" ->
            IF "topic" \in DOMAIN req THEN questionState'.topic = req.topic
            ELSE questionState'.paperPath = req.paperPath
      [] channel = "research" -> researchState'.topic = req.topic
      [] channel = "chat" ->
            /\ chatState'.messages # <<>>
            /\ chatState'.messages[Len(chatState'.messages)] =
                  [role |-> "user", content |-> <<req.message>>]

\* C17: a start with a valid request while a run of the channel is in progress
\* closes the old transport, opens a new one that becomes the channel's
\* transport, and records the new request; for chat as for the other channels.
C17_StartAlwaysLegal ==
    [][\A channel \in Channels : \A w \in SocketIds :
          StartsOver(channel, w) =>
             /\ ~Live(ws'[w])
             /\ nextWs' = nextWs + 1
             /\ wsRef'[channel] = nextWs'
             /\ Live(ws'[nextWs'])
             /\ ChannelOf(ws'[nextWs'].kind) = channel
             /\ RequestRecorded(channel, ws'[nextWs'].req)]_vars

---------------------------------------------------------------------------
(* Reset *)

\* the transport the channel held is no longer connecting or open, and the
\* channel holds none
TransportClosed(channel) ==
    /\ wsRef[channel] # 0 => ~Live(ws'[wsRef[channel]])
    /\ wsRef'[channel] = 0

\* C18: after newSolverSession, newChatSession or resetQuestionGen the
\* channel's transport is closed, its transcript is empty, its sessionId is
\* null, its status is the default, and no frame of a transport that was the
\* channel's at a reset changes the channel state afterwards.
C18_ResetClosesAndClears ==
    [][/\ newSolverSession =>
             /\ TransportClosed("solver")
             /\ solverState'.messages = <<>> /\ solverState'.sessionId = Null
             /\ solverSessionIdRef' = Null /\ ~solverState'.isSolving
       /\ newChatSession =>
             /\ TransportClosed("chat")
             /\ chatState'.messages = <<>> /\ chatState'.sessionId = Null
             /\ sessionIdRef' = Null /\ ~chatState'.isLoading
       /\ resetQuestionGen =>
             /\ TransportClosed("question")
             /\ questionState'.results = <<>> /\ questionState'.logs = <<>>
             /\ questionState'.step = "config"
       /\ \A w \in wasReset :
             MessageTask(w) =>
                ChannelState(ChannelOf(ws[w].kind))' =
                   ChannelState(ChannelOf(ws[w].kind))]_vars

---------------------------------------------------------------------------
(* Loading a session from the history *)

\* the history request of the channel settles with the session in this step
HistoryLoaded(channel) == HistoryFetchSettles(channel) /\ ~thrown'[channel]

\* C19: when loadSolverSession or loadChatSession succeeds, the transcript is
\* the fetched session's, sessionId and the session id ref (the id the next
\* initiating frame carries) are the fetched session's id, the channel is not
\* running, and no transport is constructed, closed or replaced.
C19_LoadHistory ==
    [][/\ HistoryLoaded("solver") =>
             /\ solverState'.messages = HistoryMessages
             /\ solverState'.sessionId = fetches.solver
             /\ solverSessionIdRef' = fetches.solver
             /\ ~solverState'.isSolving
             /\ UNCHANGED wsVars
       /\ HistoryLoaded("chat") =>
             /\ chatState'.messages = ChatHistoryMessages
             /\ chatState'.sessionId = fetches.chat
             /\ sessionIdRef' = fetches.chat
             /\ ~chatState'.isLoading
             /\ UNCHANGED wsVars]_vars

\* a solver session was loaded and the next start sent its id on the wire
C19_Witness ==
    \E w \in SocketIds :
        /\ ws[w].kind = "solver" /\ ws[w].sent # <<>>
        /\ ws[w].sent[1].session_id = "s3"
        /\ solverState.sessionId = "s3"
        /\ SubSeq(solverState.messages, 1, 2) = HistoryMessages

---------------------------------------------------------------------------
(* Failure of a history request *)

\* C20: no call of loadSolverSession or loadChatSession ends by passing an
\* error to its caller.
C20_NoErrorEscapes == \A channel \in DOMAIN thrown : ~thrown[channel]

---------------------------------------------------------------------------
(* Protocol errors *)

\* the handler of socket w is given a frame that is not JSON, or whose type is
\* not in the channel's vocabulary
ProtocolError(w) ==
    /\ ws[w].readyState = "OPEN" /\ MessageTask(w)
    /\ Head(ws[w].inbox).type \in {"unknown", "notjson"}

\* C21: a frame that is not valid JSON, or whose type the channel does not
\* know, leaves the channel state as it was, lets no exception out of the
\* onmessage callback, and leaves the transport open for the frames after it.
C21_ProtocolErrorsDropped ==
    [][\A w \in SocketIds :
          ProtocolError(w) =>
             /\ ChannelState(ChannelOf(ws[w].kind))' = ChannelState(ChannelOf(ws[w].kind))
             /\ timers' = timers
             /\ ws'[w].readyState = "OPEN"
             /\ uncaught' = uncaught]_vars

---------------------------------------------------------------------------
(* Store reads and writes that fail *)

\* a call of the given persistence function is made in this step
Calls(phase) == nEvents' = nEvents + 1 /\ mergeIn'.phase = phase

\* the stored text gives loadFromStorage nothing to return
Unusable(raw) ==
    \/ raw.kind \in {"absent", "garbage"}
    \/ raw.value.version # STORAGE_VERSION

\* C22: loadFromStorage returns the caller's default when the key is absent,
\* the text does not parse or the wrapper's version is not the current one;
\* a saveToStorage whose write fails leaves the store, and with it the value
\* stored before under the key, and everything in memory as they were.
C22_StorageDegrades ==
    [][/\ Calls("load") =>
             (Unusable(localStorage[PrefixedKey(mergeIn'.key)])
                 => mergeOut'.value = mergeIn'.defaultValue)
       /\ (Calls("save") /\ mergeIn'.quota) =>
             /\ localStorage' = localStorage
             /\ storeRest' = storeRest]_vars

\* a read of a key that holds a wrapper of an older version has returned the
\* caller's default
C22_Witness ==
    /\ mergeIn.phase = "load"
    /\ localStorage[PrefixedKey(mergeIn.key)] = Stored(0, SolverSnapshot)
    /\ mergeOut.value = mergeIn.defaultValue
    /\ mergeIn.defaultValue = Obj(DEFAULT_SOLVER_STATE)

---------------------------------------------------------------------------
(* Debounced saves *)

ChannelKeys ==
    {STORAGE_KEYS.SOLVER_STATE, STORAGE_KEYS.QUESTION_STATE, STORAGE_KEYS.RESEARCH_STATE,
     STORAGE_KEYS.IDEAGEN_STATE, STORAGE_KEYS.CHAT_STATE}

\* the state saved under a key
StateUnder(key) ==
    CASE key = STORAGE_KEYS.SOLVER_STATE -> solverState
      [] key = STORAGE_KEYS.QUESTION_STATE -> questionState
      [] key = STORAGE_KEYS.RESEARCH_STATE -> researchState
      [] key = STORAGE_KEYS.IDEAGEN_STATE -> ideaGenState
      [] OTHER -> chatState

\* the debounced save of the key runs in this step
Fires(key) == timers[key].pending /\ ~timers'[key].pending

\* the text a save of the state would store
SavedText(state, key) ==
    JsonStringify([version |-> STORAGE_VERSION,
                   data |-> persistState(Obj(state), ExcludedFor(key))])

\* C23: every change of a channel's state restarts the channel's debounced
\* save with the new state; the store is written only when the save runs, once
\* for all the changes since it last ran, and what it writes is the filtered
\* state as of the last change.
C23_DebounceCoalescing ==
    [][\A key \in ChannelKeys :
          /\ (isHydrated /\ StateUnder(key)' # StateUnder(key)) =>
                timers'[key] = [pending |-> TRUE, arg |-> StateUnder(key)']
          /\ Written(key) => Fires(key)
          /\ Fires(key) =>
                localStorage'[PrefixedKey(key)] = SavedText(StateUnder(key), key)]_vars

\* two changes of the solver state (the start, then the log line of onopen)
\* have been saved by one write
C23_Witness ==
    /\ nEvents = 2 /\ ~timers[STORAGE_KEYS.SOLVER_STATE].pending
    /\ Len(solverState.messages) = 1 /\ Len(solverState.logs) = 1
    /\ localStorage[PrefixedKey(STORAGE_KEYS.SOLVER_STATE)] =
          SavedText(solverState, STORAGE_KEYS.SOLVER_STATE)

---------------------------------------------------------------------------
(* Channel independence *)

StateChannels == {"solver", "question", "research", "ideagen", "chat"}

KeyOf(channel) ==
    CASE channel = "solver" -> STORAGE_KEYS.SOLVER_STATE
      [] channel = "question" -> STORAGE_KEYS.QUESTION_STATE
      [] channel = "research" -> STORAGE_KEYS.RESEARCH_STATE
      [] channel = "ideagen" -> STORAGE_KEYS.IDEAGEN_STATE
      [] OTHER -> STORAGE_KEYS.CHAT_STATE

\* everything that belongs to one channel: its state, its session id, its
\* transport reference and sockets, its store key and its debounced save
Owned(channel) ==
    <<StateUnder(KeyOf(channel)),
      CASE channel = "solver" -> solverSessionIdRef
        [] channel = "chat" -> sessionIdRef
        [] OTHER -> Null,
      IF channel \in Channels THEN wsRef[channel] ELSE 0,
      [w \in SocketsOf(ws, channel) |-> ws[w]],
      localStorage[PrefixedKey(KeyOf(channel))],
      timers[KeyOf(channel)]>>

---------------------------------------------------------------------------
(* The initiating frame *)

\* C25: the frame a transport sends when it opens has a session_id field,
\* whatever the channel.
C25_InitiatingFrameHasSessionId ==
    [][\A w \in SocketIds :
          SendsFrame(w) => "session_id" \in DOMAIN LastSent(w)]_vars

---------------------------------------------------------------------------
(* Finalizing events *)

\* the event that ends a run of a transport of the given kind
Finalizing(kind) == IF kind \in {"question", "mimic"} THEN "complete" ELSE "result"

\* the lifecycle field of the channel holds its terminal value after the step
Finished(kind) ==
    CASE kind = "solver" -> ~solverState'.isSolving
      [] kind \in {"question", "mimic"} -> questionState'.step = "result"
      [] kind = "research" -> researchState'.status = "completed"
      [] OTHER -> ~chatState'.isLoading

\* C26: the step that applies the finalizing event of a run (result; complete
\* for the two question modes) sets the terminal status and has the client
\* close the transport: the socket is CLOSING when the handler returns.
C26_FinalEventClosesTransport ==
    [][\A w \in SocketIds :
          Applies(w, ws[w].kind, Finalizing(ws[w].kind)) =>
             /\ Finished(ws[w].kind)
             /\ ws'[w].readyState = "CLOSING" /\ ~ws'[w].failed]_vars

\* a research run has taken its result: the status is completed and the socket
\* is closing, its close callback still to come
C26_Witness ==
    \E w \in SocketIds :
        /\ ws[w].kind = "research" /\ ws[w].readyState = "CLOSING"
        /\ wsRef.research = w
        /\ researchState.status = "completed"

---------------------------------------------------------------------------
(* Transcripts under protocol events *)

IsPrefix(p, q) == Len(p) <= Len(q) /\ SubSeq(q, 1, Len(p)) = p

\* q is p with, at most, its last entry replaced
LastReplaced(p, q) ==
    /\ Len(q) = Len(p) /\ Len(p) > 0
    /\ SubSeq(q, 1, Len(p) - 1) = SubSeq(p, 1, Len(p) - 1)

\* C27: a frame applied by a channel's onmessage handler removes and reorders
\* nothing: the solver messages, the question results and the chat messages
\* keep their entries in place (a chat stream, sources or result event may
\* replace the last one); a question complete event leaves the results as
\* they are and a question result event appends exactly one entry.
C27_TranscriptsAppendOnly ==
    [][\A w \in SocketIds :
          (ws[w].readyState = "OPEN" /\ MessageTask(w)) =>
             LET type == Head(ws[w].inbox).type IN
             /\ ws[w].kind = "solver" =>
                   IsPrefix(solverState.messages, solverState'.messages)
             /\ ws[w].kind \in {"question", "mimic"} =>
                   /\ IsPrefix(questionState.results, questionState'.results)
                   /\ type = "complete" => questionState'.results = questionState.results
                   /\ type = "result" =>
                         Len(questionState'.results) = Len(questionState.results) + 1
             /\ ws[w].kind = "chat" =>
                   \/ IsPrefix(chatState.messages, chatState'.messages)
                   \/ /\ type \in {"stream", "sources", "result"}
                      /\ LastReplaced(chatState.messages, chatState'.messages)]_vars

\* two result events of one question run have each appended an entry
C27_Witness ==
    /\ localStorage = DamagedStore
    /\ questionState.step = "generating" /\ Len(questionState.results) = 2
    /\ wsRef.question # 0 /\ ws[wsRef.question].readyState = "OPEN"

---------------------------------------------------------------------------
(* Clearing the namespace *)

\* C28: clearAllStorage leaves no item under a key that starts with
\* STORAGE_PREFIX, however many there were, and leaves every other key with
\* the value it had.
C28_ClearRemovesNamespace ==
    [][Calls("clear") =>
          \A k \in DOMAIN localStorage :
              IF k[1] = STORAGE_PREFIX THEN localStorage'[k] = NoItem
              ELSE localStorage'[k] = localStorage[k]]_vars

\* two items of the namespace have been removed and the language key is kept
C28_Witness ==
    /\ mergeIn.phase = "clear" /\ mergeOut.cleared = 2
    /\ localStorage[LanguageKey] = [kind |-> "text"]
    /\ \A k \in DOMAIN localStorage : k[1] = STORAGE_PREFIX => localStorage[k] = NoItem

---------------------------------------------------------------------------
(* Lifecycle field and transport *)

\* the channel's transport reference holds a socket that is connecting or open
HasLiveTransport(channel) == wsRef[channel] # 0 /\ Live(ws[wsRef[channel]])

\* C29: a channel that has opened a transport and whose lifecycle field says a
\* run is in progress has a transport that is connecting or open.
C29_RunningImpliesLive ==
    \A channel \in Channels :
        (SocketsOf(ws, channel) # {} /\ Running(channel)) => HasLiveTransport(channel)


\* C30: a step of a channel that ends its run (an error event, a finalizing
\* event, stop, reset, a loaded history) leaves the channel without an open
\* transport; the clear-all command is left aside.
C30_NotRunningImpliesClosed ==
    [][\/ clearAllPersistence
       \/ \A channel \in Channels :
             (Running(channel) /\ ~Running(channel)') =>
                 \A w \in SocketsOf(ws', channel) : ws'[w].readyState # "OPEN"]_vars

---------------------------------------------------------------------------
(* Callbacks of a superseded transport *)

\* the status, stage and transcript of a channel
RunView(channel) ==
    CASE channel = "solver" ->
            <<solverState.isSolving, solverState.progress, solverState.messages>>
      [] channel = "question" ->
            <<questionState.step, questionState.progress, questionState.results>>
      [] channel = "research" ->
            <<researchState.status, researchState.progress, researchState.report>>
      [] OTHER -> <<chatState.isLoading, chatState.currentStage, chatState.messages>>

\* the connection of socket w ends in this step (its error and close callbacks
\* run) while another socket is the live transport of its channel
EndsSuperseded(w) ==
    /\ ws[w].kind # "none"
    /\ ws[w].readyState # "CLOSED" /\ ws'[w].readyState = "CLOSED"
    /\ LET current == wsRef[ChannelOf(ws[w].kind)]
       IN current \notin {0, w} /\ Live(ws[current])

\* C31: the error and close callbacks of a transport that start, stop or reset
\* closed leave the status, stage and transcript of the channel as they are
\* when a newer transport is running.
C31_SupersededCallbacks ==
    [][\A w \in SocketIds :
          EndsSuperseded(w) =>
              RunView(ChannelOf(ws[w].kind))' = RunView(ChannelOf(ws[w].kind))]_vars

---------------------------------------------------------------------------
(* Rejected starts *)

\* start is invoked in this step with a request that has nothing to send: a
\* blank chat message, or a mimic request with no file and an empty path
RejectedStart ==
    /\ nEvents' = nEvents + 1
    /\ \/ \E m \in ChatInputs : Trim(m) = "" /\ sendChatMessage(m)
       \/ \E r \in MimicRequests :
             r.file = Null /\ r.paperPath = "" /\ startMimicQuestionGen(r)

\* C32: a start that is rejected for its request closes no transport, opens
\* none, and leaves status, stage and transcript unchanged.
C32_RejectedStartNoEffect ==
    [][RejectedStart =>
          /\ UNCHANGED <<ws, wsRef, nextWs>>
          /\ \A channel \in Channels : RunView(channel)' = RunView(channel)]_vars

---------------------------------------------------------------------------
(* Eventual persistence: the debounce timers under fairness *)

\* the value the debounced save of key writes for its argument
Saved(key, arg) ==
    CASE key = GUIDE_CHAT_KEY -> Arr(arg)
      [] key = STORAGE_KEYS.GUIDE_SESSION -> persistState(Obj(arg), GUIDE_SESSION_EXCLUDE)
      [] OTHER -> persistState(Obj(arg), ExcludedFor(key))

\* the timer of key expires: the debounced save runs with its latest argument
timeout(key) ==
    /\ timers[key].pending
    /\ timers' = [timers EXCEPT ![key] = NoTimer]
    /\ localStorage' =
          IF key \in ChannelKeys /\ ~HydrationGate(isHydrated) THEN localStorage
          ELSE saveToStorage(localStorage, key, Saved(key, timers[key].arg), FALSE)
    /\ UNCHANGED <<active, isHydrated, solverVars, questionVars, researchVars, ideaVars,
                   chatVars, guideVars, wsVars, fetches, thrown, clearPending, nEvents,
                   histVars, mergeVars>>

\* the store keys of a channel
KeysOf(channel) ==
    IF channel = "guide" THEN {STORAGE_KEYS.GUIDE_SESSION, GUIDE_CHAT_KEY}
    ELSE {KeyOf(channel)}

\* the commands stop one event before the budget; the timers run on
NextLive ==
    \/ nEvents < MaxEvents - 1 /\ Next
    \/ \E key \in KeysOf(active) : timeout(key)

\* a timer that is set expires while the process is alive
SpecLive ==
    /\ Init
    /\ [][NextLive]_vars
    /\ \A key \in StorageKeyNames : WF_vars(key \in KeysOf(active) /\ timeout(key))

\* the state kept under key
Latest(key) ==
    CASE key = GUIDE_CHAT_KEY -> chatMessages
      [] key = STORAGE_KEYS.GUIDE_SESSION -> sessionState
      [] OTHER -> StateUnder(key)

\* the state of key changed after the restore pass and is not written yet
Unsaved(key) == HydratedFor(key) /\ timers[key].pending

\* the store holds the filtered copy of the state kept under key
Holds(key) ==
    localStorage[PrefixedKey(key)] =
        JsonStringify([version |-> STORAGE_VERSION, data |-> Saved(key, Latest(key))])

---------------------------------------------------------------------------
(* The answer of a chat result event *)

\* the last entry of the transcript is the finished answer with this content
EndsWithAnswer(messages, content) ==
    /\ messages # <<>>
    /\ LET last == messages[Len(messages)]
       IN /\ last.role = "assistant"
          /\ last.content = content
          /\ "isStreaming" \in DOMAIN last /\ ~last.isStreaming

\* C34: after a result event is applied to the chat state, the last entry of
\* the transcript is an assistant entry that carries the content of the event
\* and is not streaming, whether or not a stream event came before it.
C34_ResultKeepsAnswer ==
    [][\A w \in SocketIds :
          Applies(w, "chat", "result") =>
              EndsWithAnswer(chatState'.messages, Head(ws[w].inbox).content)]_vars

---------------------------------------------------------------------------
(* clearAllPersistence and the transports opened before it *)

\* the five channel states
ChannelStates == <<solverState, questionState, researchState, ideaGenState, chatState>>

\* a callback of socket w runs in this step: a frame is taken from its inbox,
\* or its connection ends
SocketTask(w) ==
    \/ MessageTask(w)
    \/ ws[w].readyState # "CLOSED" /\ ws'[w].readyState = "CLOSED"

\* C35: clearAllPersistence sets every channel state to its default, and no
\* frame or callback of a transport opened before the clear changes a channel
\* state afterwards.
C35_ClearIsFinal ==
    [][/\ clearAllPersistence =>
              ChannelStates' = <<DEFAULT_SOLVER_STATE, DEFAULT_QUESTION_STATE,
                                 DEFAULT_RESEARCH_STATE, DEFAULT_IDEAGEN_STATE,
                                 DEFAULT_CHAT_STATE>>
       /\ \A w \in preClear : SocketTask(w) => ChannelStates' = ChannelStates]_vars

---------------------------------------------------------------------------
(* Streaming entries and the loading flag of the chat *)

\* an entry of the transcript is marked as streaming
SomeStreaming(messages) ==
    \E i \in 1..Len(messages) :
        "isStreaming" \in DOMAIN messages[i] /\ messages[i].isStreaming

\* C36: when the chat is not loading, no entry of its transcript is marked as
\* streaming.
C36_IdleHasNoStreamingEntry == ~chatState.isLoading => ~SomeStreaming(chatState.messages)

---------------------------------------------------------------------------
(* Loading placeholders of the guide transcript *)

\* an entry whose id starts with "loading-"
IsLoadingEntry(msg) == msg.id[1] = "loading"
HasLoadingEntry(messages) == \E i \in 1..Len(messages) : IsLoadingEntry(messages[i])

\* C37: no value written under the guide chat key, and no guide transcript
\* the restore pass produces, contains a loading placeholder entry.
C37_TransientEntriesNotPersisted ==
    [][/\ Written(GUIDE_CHAT_KEY) =>
              ~HasLoadingEntry(localStorage'[PrefixedKey(GUIDE_CHAT_KEY)].value.data.arr)
       /\ ~guideHydrated /\ guideHydrated' => ~HasLoadingEntry(chatMessages')]_vars

---------------------------------------------------------------------------
(* Failed guide requests *)

\* a request of createSession, startLearning, nextKnowledge or fixHtml ends in
\* this step with data.success false or with the fetch raising
GuideRequestFails ==
    \E outcome \in {"failure", "raise"}, t \in Clock(now) :
        \/ createSessionDone(outcome, t)
        \/ startLearningDone(outcome, t)
        \/ nextKnowledgeDone(outcome, t)
        \/ fixHtmlDone(outcome, t)

\* the entries of the transcript that report an error
ErrorEntries(messages) == {i \in 1..Len(messages) : messages[i].id[1] = "error"}

\* C38: when a request of createSession, startLearning, nextKnowledge or
\* fixHtml fails, sessionState is unchanged, the loading entry of the request
\* is gone, exactly one error entry is appended, and isLoading is false for
\* the functions that set it.
C38_GuideRequestFailure ==
    [][guideFetch.op \in {"create_session", "start", "next", "fix_html"}
       /\ GuideRequestFails =>
          /\ sessionState' = sessionState
          /\ \A i \in 1..Len(chatMessages') :
                chatMessages'[i].id # guideFetch.loadingId
          /\ Len(chatMessages') =
                Len(removeLoadingMessage(chatMessages, guideFetch.loadingId)) + 1
          /\ Cardinality(ErrorEntries(chatMessages')) =
                Cardinality(ErrorEntries(chatMessages)) + 1
          /\ Len(chatMessages') \in ErrorEntries(chatMessages')
          /\ guideFetch.op # "fix_html" => ~guideLoading'.isLoading]_vars

\* a request of startLearning has failed: the transcript ends with the error
\* entry, no loading entry of this run is left and the session is as created
C38_Witness ==
    /\ guideFetch.op = "none" /\ ~guideLoading.isLoading
    /\ sessionState.session_id = "g2" /\ sessionState.status = "initialized"
    /\ chatMessages # <<>>
    /\ chatMessages[Len(chatMessages)].id[1] = "error"
    /\ \A i \in 1..Len(chatMessages) : chatMessages[i].id[1] # "loading"

---------------------------------------------------------------------------
(* The computed states of the guide and the calls without a session *)

\* the computed states that are true
ComputedStates(state) ==
    {name \in {"canStart", "canNext", "isLastKnowledge", "isCompleted"} :
        CASE name = "canStart" -> canStart(state)
          [] name = "canNext" -> canNext(state)
          [] name = "isLastKnowledge" -> isLastKnowledge(state)
          [] OTHER -> isCompleted(state)}

\* startLearning, nextKnowledge, sendMessage or fixHtml is called in this step
SessionCall ==
    \E t \in Clock(now), text \in GuideInputs :
        startLearning(t) \/ nextKnowledge(t) \/ sendMessage(text, t) \/ fixHtml(text, t)

\* C39: at most one of canStart, canNext, isLastKnowledge and isCompleted is
\* true; and while session_id is null, startLearning, nextKnowledge,
\* sendMessage and fixHtml issue no request and change no state.
C39_ComputedStatesExclusive ==
    /\ [](Cardinality(ComputedStates(sessionState)) <= 1)
    /\ [][Falsy(sessionState.session_id) /\ SessionCall =>
             UNCHANGED <<guideFetch, sessionState, chatMessages, guideLoading,
                         localStorage, timers>>]_vars

\* the session created in this run is learning its first knowledge point,
\* with another one to come
C39_Witness ==
    /\ sessionState.session_id = "g2"
    /\ ComputedStates(sessionState) = {"canNext"}

---------------------------------------------------------------------------
(* The round trip of a value through the store *)

\* JSON.stringify keeps the value whole: no key of it is undefined
JsonSerialisable(value) == "arr" \in DOMAIN value \/ value.undef = {}

\* a call of the persistence functions is made in this step
StoreCall(phase) == nEvents' = nEvents + 1 /\ mergeIn'.phase = phase

\* C40: a value that saveToStorage has written under a key is what
\* loadFromStorage returns for that key, whatever the default and whatever the
\* key held before; the save changes the prefixed key of the store only.
C40_StoreRoundTrip ==
    [][/\ StoreCall("save") =>
              \A k \in DOMAIN localStorage :
                  k # PrefixedKey(mergeIn'.key) => localStorage'[k] = localStorage[k]
       /\ /\ mergeIn.phase = "save" /\ ~mergeIn.quota
          /\ JsonSerialisable(mergeIn.value)
          /\ StoreCall("load") /\ mergeIn'.key = mergeIn.key
          => mergeOut'.value = mergeIn.value]_vars

\* a saved value (no initial store holds it) has been read back against a
\* default that has keys of its own, and the key holds its wrapper and no more
C40_Witness ==
    /\ nEvents = MaxEvents
    /\ mergeIn.phase = "load" /\ mergeIn.defaultValue = Obj(DEFAULT_SOLVER_STATE)
    /\ mergeOut.value = Obj([sessionId |-> "s9"])
    /\ localStorage[PrefixedKey(mergeIn.key)] =
           JsonStringify([version |-> STORAGE_VERSION, data |-> mergeOut.value])

===========================================================================
